---- MODULE Spec2Model ----
(***************************************************************************)
(* Query diagnostic pipeline of mcp_db_performance: SQL validation, plan   *)
(* acquisition under a statement id, plan-scoped metadata collection,      *)
(* diagnostics, history comparison.                                        *)
(*                                                                         *)
(* A SQL text is a sequence of upper-case lexical tokens together with its *)
(* length in characters.  A nullable number is NULL (-1, no real value is  *)
(* negative); a nullable string is the string "None".                      *)
(***************************************************************************)
EXTENDS Integers, Sequences, FiniteSets, TLC

VARIABLES
    clock,          \* int(datetime.now().timestamp()): wall clock in whole seconds
    plan_table,     \* rows of Oracle's PLAN_TABLE, shared by all sessions
    output_preset,  \* config.output_preset, module-level shared setting
    history,        \* rows of query_execution_history, oldest first
    req,            \* per request slot: inputs, position and results of the call
    env,            \* what the environment may do in this run
    cmp             \* inputs and result of one compare_with_history call

vars == <<clock, plan_table, output_preset, history, req, env, cmp>>

----------------------------------------------------------------------------
(* Bounds *)

NumProcs == 2
MaxClock == 2
MaxFailures == 1

Procs == 1..NumProcs

NULL == 0 - 1
None == "None"

----------------------------------------------------------------------------
(* SQL texts *)

RECURSIVE Rep(_, _)
Rep(tok, n) == IF n = 0 THEN <<>> ELSE <<tok>> \o Rep(tok, n - 1)

Nested(n) ==
    <<"SELECT", "*", "FROM">> \o Rep("(", n) \o <<"SELECT", "1", "FROM", "DUAL">>
        \o Rep(")", n)

SqlOpenOrders == <<"SELECT", "*", "FROM", "ORDERS", "WHERE", "STATUS", "=", "'OPEN'">>
SqlQualified  == <<"SELECT", "*", "FROM", "HR", ".", "EMP", ";">>
SqlDelete     == <<"DELETE", "FROM", "ORDERS">>
SqlDropInside == <<"SELECT", "1", "FROM", "DUAL", ";", "DROP", "TABLE", "ORDERS">>
SqlWithOnly   == <<"WITH", "X", "AS", "(", "DELETE", "FROM", "ORDERS", ")">>
SqlEmpty      == <<>>

SqlTexts ==
    { SqlOpenOrders, SqlQualified, SqlDelete, SqlDropInside, SqlWithOnly,
      Nested(10), Nested(11), SqlEmpty }

QueryLengths == {200, 10000, 50000}

IsWord(tok) == tok \notin {"(", ")", ".", ";", "*", "=", "'OPEN'"}

\* s.strip(); s[:-1] if s.endswith(";")
normalize_sql(s) ==
    IF s = <<>> THEN <<>>
    ELSE IF s[Len(s)] = ";" THEN SubSeq(s, 1, Len(s) - 1) ELSE s

Tokens(s) == {s[i] : i \in 1..Len(s)}

\* the running parenthesis depth after the first i tokens
RECURSIVE ParenDepthAt(_, _)
ParenDepthAt(s, i) ==
    IF i = 0 THEN 0
    ELSE ParenDepthAt(s, i - 1)
            + (IF s[i] = "(" THEN 1 ELSE IF s[i] = ")" THEN -1 ELSE 0)

RECURSIVE MaxParenDepth(_, _)
MaxParenDepth(s, i) ==
    IF i = 0 THEN 0
    ELSE LET m == MaxParenDepth(s, i - 1)
             d == ParenDepthAt(s, i)
         IN IF s[i] = "(" /\ d > m THEN d ELSE m

FirstWord(s) == IF s = <<>> THEN "" ELSE s[1]

Verdict(valid, dangerous, probed) ==
    [is_valid |-> valid, is_dangerous |-> dangerous, probed |-> probed]

\* Oracle validate_sql: the function returns on its first statement
validate_sql(sql, probeOk) == Verdict(TRUE, FALSE, FALSE)

MaxNesting == 10

mysql_dangerous_keywords ==
    { "INSERT", "UPDATE", "DELETE", "REPLACE", "CREATE", "DROP", "ALTER",
      "TRUNCATE", "RENAME", "GRANT", "REVOKE", "COMMIT", "ROLLBACK",
      "SAVEPOINT", "SHUTDOWN", "KILL", "CALL", "EXECUTE", "HANDLER", "LOAD",
      "IMPORT", "LOCK", "UNLOCK" }

\* a validator that looks at the first word only
first_word_validate_sql(sql, probeOk) ==
    LET clean == normalize_sql(sql)
    IN  IF FirstWord(clean) \notin {"WITH", "SELECT"}
            THEN Verdict(FALSE, TRUE, FALSE)
        ELSE Verdict(probeOk, FALSE, TRUE)

\* MySQL validate_sql; probeOk is what the engine answers to EXPLAIN <sql>
mysql_validate_sql(sql, probeOk) ==
    LET clean == normalize_sql(sql)
        first_word == FirstWord(clean)
    IN  IF first_word = "WITH" /\ "SELECT" \notin Tokens(clean)
            THEN Verdict(FALSE, TRUE, FALSE)
        ELSE IF first_word # "WITH" /\ first_word # "SELECT"
            THEN Verdict(FALSE, TRUE, FALSE)
        ELSE IF Tokens(clean) \cap mysql_dangerous_keywords # {}
            THEN Verdict(FALSE, TRUE, FALSE)
        ELSE IF \E i \in 1..(Len(clean) - 1) :
                    clean[i] = "INTO" /\ clean[i + 1] \in {"OUTFILE", "DUMPFILE"}
            THEN Verdict(FALSE, TRUE, FALSE)
        ELSE IF MaxParenDepth(clean, Len(clean)) > MaxNesting
            THEN Verdict(FALSE, FALSE, FALSE)
        ELSE Verdict(probeOk, FALSE, TRUE)

----------------------------------------------------------------------------
(* Execution plans: what the engine writes into PLAN_TABLE for a statement *)

Step(id, parent, op, opt, owner, name, type, cost, card, ap, fp, ps, pe) ==
    [ id |-> id, parent_id |-> parent, operation |-> op, options |-> opt,
      object_owner |-> owner, object_name |-> name, object_type |-> type,
      cost |-> cost, cardinality |-> card, bytes |-> NULL,
      access_predicates |-> ap, filter_predicates |-> fp,
      partition_start |-> ps, partition_stop |-> pe ]

PlanFull ==
    << Step(0, NULL, "SELECT STATEMENT", None, None, None, None, 100, 100000,
            None, None, None, None),
       Step(1, 0, "TABLE ACCESS", "FULL", "APP", "ORDERS", "TABLE", 100, 100000,
            None, "STATUS='OPEN'", None, None) >>

PlanIndex ==
    << Step(0, NULL, "SELECT STATEMENT", None, None, None, None, 60, 10,
            None, None, None, None),
       Step(1, 0, "TABLE ACCESS", "BY INDEX ROWID", "APP", "ORDERS", "TABLE", 60, 10,
            None, None, None, None),
       Step(2, 1, "INDEX", "RANGE SCAN", "APP", "ORDERS_STATUS_IX", "INDEX", 2, 10,
            "STATUS='OPEN'", None, None, None) >>

PlanEmp ==
    << Step(0, NULL, "SELECT STATEMENT", None, None, None, None, 3, 14,
            None, None, None, None),
       Step(1, 0, "TABLE ACCESS", "FULL", "HR", "EMP", "TABLE", 3, 14,
            None, None, None, None) >>

\* the plans the optimizer may choose for a statement
EnginePlans(sql) ==
    IF "EMP" \in Tokens(sql) THEN {PlanEmp} ELSE {PlanFull, PlanIndex}

StepsOf(plan) == {plan[i] : i \in 1..Len(plan)}

\* rows of PLAN_TABLE for one statement id, ORDER BY id (ties in any order)
IsOrderedById(s) == \A i \in 1..(Len(s) - 1) : s[i].step.id <= s[i + 1].step.id

RowsOrderedById(rows) ==
    LET n == Cardinality(rows)
    IN  { s \in [1..n -> rows] :
            /\ \A i, j \in 1..n : i # j => s[i] # s[j]
            /\ IsOrderedById(s) }

----------------------------------------------------------------------------
(* The Oracle catalog the metadata queries read *)

all_tables ==
    { [owner |-> "APP", table_name |-> "ORDERS", num_rows |-> 100000,
       blocks |-> 1500, partitioned |-> "NO"],
      [owner |-> "HR", table_name |-> "EMP", num_rows |-> NULL,
       blocks |-> NULL, partitioned |-> "NO"] }

all_indexes ==
    { [owner |-> "APP", index_name |-> "ORDERS_STATUS_IX", table_name |-> "ORDERS",
       index_type |-> "NORMAL", status |-> "VALID"] }

all_ind_columns ==
    { [table_owner |-> "APP", table_name |-> "ORDERS",
       index_name |-> "ORDERS_STATUS_IX", column_name |-> "STATUS"] }

all_tab_col_statistics ==
    { [owner |-> "APP", table_name |-> "ORDERS", column_name |-> "STATUS",
       num_distinct |-> 3] }

all_constraints ==
    { [owner |-> "APP", table_name |-> "ORDERS", constraint_name |-> "ORDERS_PK",
       constraint_type |-> "P"] }

v_parameter == { [name |-> "optimizer_mode", value |-> "ALL_ROWS"] }

dba_segments ==
    { [owner |-> "APP", segment_name |-> "ORDERS", segment_type |-> "TABLE",
       bytes |-> 12288],
      [owner |-> "APP", segment_name |-> "ORDERS_STATUS_IX", segment_type |-> "INDEX",
       bytes |-> 1024] }

\* the connected user's own segments, whatever the tables asked for
user_segments ==
    { [owner |-> "APP", segment_name |-> "ORDERS", segment_type |-> "TABLE",
       bytes |-> 12288],
      [owner |-> "APP", segment_name |-> "ORDERS_STATUS_IX", segment_type |-> "INDEX",
       bytes |-> 1024],
      [owner |-> "APP", segment_name |-> "AUDIT_LOG", segment_type |-> "TABLE",
       bytes |-> 4096] }

all_part_tables == {}

all_part_key_columns == {}

----------------------------------------------------------------------------
(* Collector helpers *)

Get(f, k, d) == IF k \in DOMAIN f THEN f[k] ELSE d

ShortTokens == {"X", "1"}

\* qualified OWNER.TABLE references of the text
extract_sql_objects(s) ==
    { <<s[i], s[i + 2]>> : i \in
        { j \in 1..(Len(s) - 2) :
            /\ s[j + 1] = "."
            /\ IsWord(s[j]) /\ IsWord(s[j + 2])
            /\ s[j] \notin {"DUAL", "SYS", "SYSTEM"}
            /\ s[j] \notin ShortTokens } }

sql_keywords ==
    { "SELECT", "FROM", "WHERE", "AS", "WITH", "DELETE", "DROP", "TABLE", "DUAL" }

extract_columns_from_sql(s) ==
    { t \in Tokens(s) : IsWord(t) /\ t \notin ShortTokens /\ t \notin sql_keywords }

\* get_plan_objects: classify the objects of the plan rows read for the statement
plan_tables_of(rows) ==
    { <<r.object_owner, r.object_name>> : r \in
        { x \in rows :
            /\ x.object_owner # None /\ x.object_name # None
            /\ x.object_type \notin {"INDEX", "INDEX PARTITION", "INDEX SUBPARTITION"}
            /\ x.operation # "INDEX" } }

plan_indexes_of(rows) ==
    { <<r.object_owner, r.object_name>> : r \in
        { x \in rows :
            /\ x.object_owner # None /\ x.object_name # None
            /\ \/ x.object_type \in {"INDEX", "INDEX PARTITION", "INDEX SUBPARTITION"}
               \/ x.operation = "INDEX" } }

Presets == {"standard", "compact", "minimal"}

\* the catalog queries that are not wrapped in a try, in call order
UnguardedQueries(preset, tables, sql_cols) ==
    IF tables = {} THEN <<>>
    ELSE IF preset = "minimal" THEN <<"all_tables">>
    ELSE <<"all_tables", "all_indexes", "all_ind_columns", "all_part_tables",
           "all_part_key_columns">>
         \o (IF sql_cols = {} THEN <<>> ELSE <<"all_tab_col_statistics">>)
         \o <<"all_constraints">>

GuardedQueries(preset, tables, failing) ==
    (IF preset = "minimal" THEN {} ELSE {"v$parameter"})
    \cup (IF preset \notin {"minimal", "compact"} /\ tables # {}
            THEN {"dba_segments"}
                 \cup (IF "dba_segments" \in failing THEN {"user_segments"} ELSE {})
            ELSE {})

MetaQueries ==
    { "all_tables", "all_indexes", "all_ind_columns", "all_part_tables",
      "all_part_key_columns", "all_tab_col_statistics", "all_constraints",
      "v$parameter", "dba_segments", "user_segments" }

OnTables(rows, tables) == { r \in rows : <<r.owner, r.table_name>> \in tables }

get_index_columns(tables) ==
    { [owner |-> r.table_owner, table_name |-> r.table_name,
       index_name |-> r.index_name,
       columns |-> { c.column_name : c \in
                       { x \in all_ind_columns :
                           /\ x.table_owner = r.table_owner
                           /\ x.table_name = r.table_name
                           /\ x.index_name = r.index_name } }] :
      r \in { x \in all_ind_columns : <<x.table_owner, x.table_name>> \in tables } }

get_segment_sizes(tables, failing) ==
    IF tables = {} THEN {}
    ELSE IF "dba_segments" \notin failing
        THEN { r \in dba_segments : <<r.owner, r.segment_name>> \in tables }
    ELSE IF "user_segments" \notin failing THEN user_segments
    ELSE {}

\* lines 1062-1096 of run_full_oracle_analysis: the metadata of the statement's
\* tables under the preset, when the catalog queries in `failing` raise
CollectMetadata(preset, tables, sql_cols, failing) ==
    LET uq == UnguardedQueries(preset, tables, sql_cols)
        bad == { i \in 1..Len(uq) : uq[i] \in failing }
        raised == bad # {}
        first == IF raised THEN CHOOSE i \in bad : \A j \in bad : i <= j ELSE Len(uq)
        full == preset # "minimal"
    IN  [ raised |-> raised,
          executed |-> { uq[i] : i \in 1..first }
                        \cup (IF raised THEN {}
                              ELSE GuardedQueries(preset, tables, failing)),
          table_stats |-> OnTables(all_tables, tables),
          index_stats |-> IF full THEN OnTables(all_indexes, tables) ELSE {},
          index_columns |-> IF full THEN get_index_columns(tables) ELSE {},
          partition_tables |-> IF full THEN OnTables(all_part_tables, tables) ELSE {},
          partition_keys |-> IF full THEN OnTables(all_part_key_columns, tables) ELSE {},
          column_stats |->
              IF full /\ sql_cols # {}
                THEN { r \in OnTables(all_tab_col_statistics, tables) :
                         r.column_name \in sql_cols }
                ELSE {},
          constraints |-> IF full THEN OnTables(all_constraints, tables) ELSE {},
          optimizer_parameters |->
              IF full /\ "v$parameter" \notin failing THEN v_parameter ELSE {},
          segment_sizes |->
              IF preset \notin {"minimal", "compact"}
                THEN get_segment_sizes(tables, failing) ELSE {} ]

----------------------------------------------------------------------------
(* Detectors and output filtering *)

detect_anomalies(table_stats) ==
    { [type |-> "missing_statistics", table_owner |-> t.owner,
       table_name |-> t.table_name, num_rows |-> t.num_rows] :
      t \in { x \in table_stats : x.num_rows = NULL \/ x.num_rows = 0 } }

\* the text after the first WHERE, up to the first ORDER BY if there is one
where_part(sql) ==
    LET at == { i \in 1..Len(sql) : sql[i] = "WHERE" }
        from == CHOOSE i \in at : \A j \in at : i <= j
        rest == SubSeq(sql, from + 1, Len(sql))
        ends == { i \in 1..(Len(rest) - 1) : rest[i] = "ORDER" /\ rest[i + 1] = "BY" }
    IN  IF at = {} THEN <<>>
        ELSE IF ends = {} THEN rest
        ELSE SubSeq(rest, 1, (CHOOSE i \in ends : \A j \in ends : i <= j) - 1)

\* one finding per TABLE ACCESS FULL step whose table has statistics; `step` tells
\* findings of different steps apart.  A column name is looked for in the text of
\* the WHERE clause; the texts here hold a column name only as a whole word.
detect_full_table_scans(plan_details, table_stats, index_stats, column_stats, sql) ==
    { [operation |-> "FULL TABLE SCAN", step |-> st.id,
       table_owner |-> st.object_owner, table_name |-> st.object_name,
       num_rows |-> (CHOOSE t \in table_stats :
                       t.owner = st.object_owner /\ t.table_name = st.object_name).num_rows,
       cost |-> st.cost, cardinality |-> st.cardinality,
       available_indexes |->
           { i.index_name : i \in
               { x \in index_stats :
                   x.owner = st.object_owner /\ x.table_name = st.object_name } },
       columns_in_where_clause |->
           { c.column_name : c \in
               { x \in column_stats : x.column_name \in Tokens(where_part(sql)) } }] :
      st \in { x \in StepsOf(plan_details) :
                /\ x.operation = "TABLE ACCESS" /\ x.options = "FULL"
                /\ \E t \in table_stats :
                      t.owner = x.object_owner /\ t.table_name = x.object_name } }

\* the message detect_full_table_scans formats for a finding, f"{num_rows:,}",
\* raises when the table's row count is null
full_table_scans_raise(plan_details, table_stats, index_stats) ==
    /\ index_stats # {}
    /\ \E st \in StepsOf(plan_details), t \in table_stats :
          /\ st.operation = "TABLE ACCESS" /\ st.options = "FULL"
          /\ t.owner = st.object_owner /\ t.table_name = st.object_name
          /\ t.num_rows = NULL

\* line 1102: the detector runs only when some index statistics were collected
full_table_scans(plan_details, table_stats, index_stats, column_stats, sql) ==
    IF index_stats # {}
      THEN detect_full_table_scans(plan_details, table_stats, index_stats,
                                   column_stats, sql)
      ELSE {}

\* str() of a partition number, as PLAN_TABLE spells it
str(n) == ToString(n)

\* the range of a step stops at the last of part_count partitions, or at the
\* value that stands for a stop known only at run time
reaches_last_partition(pstart, pstop, part_count) ==
    pstop = str(part_count) \/ pstop = "KEY"

\* the range of a step is all of part_count partitions
all_partitions_scanned(pstart, pstop, part_count) ==
    (pstart = "1" /\ pstop = str(part_count)) \/ pstop = "KEY"

\* one diagnostic per TABLE ACCESS step on a partitioned table whose range is
\* all of it; `step` tells diagnostics of different steps apart
diagnose_partition_pruning(plan_details, partition_tables, sql) ==
    IF partition_tables = {} \/ plan_details = <<>> THEN {}
    ELSE { [table_owner |-> h.part_table.owner, table_name |-> h.part_table.table_name,
            step |-> h.step.id,
            partition_count |-> h.part_table.partition_count,
            partitions_scanned |-> <<h.step.partition_start, h.step.partition_stop>>,
            severity |-> "HIGH"] :
           h \in { x \in [part_table : partition_tables, step : StepsOf(plan_details)] :
                     /\ x.step.object_owner = x.part_table.owner
                     /\ x.step.object_name = x.part_table.table_name
                     /\ x.step.operation = "TABLE ACCESS"
                     /\ x.step.partition_start # None
                     /\ x.step.partition_stop # None
                     /\ all_partitions_scanned(x.step.partition_start,
                                               x.step.partition_stop,
                                               x.part_table.partition_count) } }

\* line 1099
partition_diagnostics(plan_details, part_tables, sql) ==
    IF part_tables # {} THEN diagnose_partition_pruning(plan_details, part_tables, sql)
    ELSE {}

\* `phrase in text` for the operation and option texts of the plans here
ProperParts ==
    { <<"PARTITION RANGE", "PARTITION">>, <<"BY INDEX ROWID", "INDEX">>,
      <<"RANGE SCAN DESCENDING", "RANGE SCAN">> }

InText(phrase, text) == text = phrase \/ <<text, phrase>> \in ProperParts

CartesianFloor == 100000

\* detect_cartesian_products: its detections (step_id tells them apart), or the
\* exception of `"CARTESIAN" in options` on a MERGE JOIN step without options
detect_cartesian_products(plan_details) ==
    LET n == Len(plan_details)
        has_predicate(i) ==
            /\ i + 1 <= n
            /\ \/ plan_details[i + 1].access_predicates # None
               \/ plan_details[i + 1].filter_predicates # None
        loops == { i \in 1..n :
                    /\ plan_details[i].operation = "NESTED LOOPS"
                    /\ ~has_predicate(i)
                    /\ plan_details[i].cardinality # NULL
                    /\ plan_details[i].cardinality > CartesianFloor }
        explicit == { i \in 1..n :
                       /\ plan_details[i].operation = "MERGE JOIN"
                       /\ plan_details[i].options # None
                       /\ InText("CARTESIAN", plan_details[i].options) }
        found(type, i) ==
            [ type |-> type, step_id |-> plan_details[i].id,
              operation |-> <<plan_details[i].operation, plan_details[i].options>>,
              cardinality |-> plan_details[i].cardinality,
              has_join_predicate |-> FALSE ]
    IN  IF \E i \in 1..n : /\ plan_details[i].operation = "MERGE JOIN"
                           /\ plan_details[i].options = None
          THEN [raised |-> TRUE, detections |-> {}]
          ELSE [raised |-> FALSE,
                detections |->
                    { found("NESTED_LOOPS_NO_PREDICATE", i) : i \in loops }
                    \cup { found("EXPLICIT_CARTESIAN", i) : i \in explicit }]

\* the occurrences of a phrase in a text: the places where its words follow each
\* other (the texts here separate words by one space, or by none around brackets)
Occurrences(sql, phrase) ==
    { i \in 1..(Len(sql) - Len(phrase) + 1) :
        \A k \in 1..Len(phrase) : sql[i + k - 1] = phrase[k] }

HasPhrase(sql, phrase) ==
    \E i \in 1..(Len(sql) - Len(phrase) + 1) :
        \A k \in 1..Len(phrase) : sql[i + k - 1] = phrase[k]

\* sql_upper.index("SELECT") of the CTE check raises ValueError when the text
\* holds WITH and no SELECT
cte_check_raises(sql) == HasPhrase(sql, <<"WITH">>) /\ ~HasPhrase(sql, <<"SELECT">>)

\* the type labels of classify_query_intent in the order of its checks
IntentTypes ==
    << "aggregation_report", "pagination_query", "top_n_query", "reconciliation_query",
       "multi_source_query", "complex_join_query", "count_query", "full_data_export" >>

\* classify_query_intent: every check runs, in this order, on the result of the
\* checks before it
classify_query_intent(sql) ==
    LET group_by == HasPhrase(sql, <<"GROUP", "BY">>)
        rownum == HasPhrase(sql, <<"ROWNUM">>)
        limiting == \/ rownum
                    \/ HasPhrase(sql, <<"FETCH", "FIRST">>)
                    \/ HasPhrase(sql, <<"WHERE">>) /\ HasPhrase(sql, <<"ROW_NUMBER">>)
        top_n == HasPhrase(sql, <<"ORDER", "BY">>) /\ rownum
        left_joins ==
            \/ Cardinality(Occurrences(sql, <<"LEFT", "JOIN">>)) >= 2
            \/ Cardinality(Occurrences(sql, <<"LEFT", "OUTER", "JOIN">>)) >= 2
        nulls == HasPhrase(sql, <<"NOT", "NULL">>) \/ HasPhrase(sql, <<"IS", "NULL">>)
        union == HasPhrase(sql, <<"UNION">>)
        many_joins == Cardinality(Occurrences(sql, <<"JOIN">>)) >= 4
        counting == HasPhrase(sql, <<"COUNT", "(">>)
        star == Len(sql) >= 2 /\ sql[1] = "SELECT" /\ sql[2] = "*"
        with_first ==
            /\ HasPhrase(sql, <<"WITH">>)
            /\ HasPhrase(sql, <<"SELECT">>)
            /\ (CHOOSE i \in Occurrences(sql, <<"WITH">>) :
                    \A j \in Occurrences(sql, <<"WITH">>) : i <= j)
               < (CHOOSE i \in Occurrences(sql, <<"SELECT">>) :
                    \A j \in Occurrences(sql, <<"SELECT">>) : i <= j)
        dates == \E w \in {"BETWEEN", "TO_DATE"} : HasPhrase(sql, <<w>>)
        t1 == IF group_by THEN "aggregation_report" ELSE "unknown"
        t2 == IF limiting /\ t1 = "unknown" THEN "pagination_query" ELSE t1
        t3 == IF top_n THEN "top_n_query" ELSE t2
        t4 == IF left_joins /\ nulls THEN "reconciliation_query" ELSE t3
        t5 == IF union THEN "multi_source_query" ELSE t4
        t6 == IF many_joins /\ t5 = "unknown" THEN "complex_join_query" ELSE t5
        t7 == IF counting /\ ~group_by THEN "count_query" ELSE t6
        t8 == IF star /\ t7 = "unknown" THEN "full_data_export" ELSE t7
        c1 == IF group_by THEN "moderate" ELSE "simple"
        c4 == IF left_joins THEN "complex" ELSE c1
        c5 == IF union THEN "complex" ELSE c4
        c6 == IF many_joins THEN "very_complex" ELSE c5
        c9 == IF with_first THEN "complex" ELSE c6
    IN  [ raised |-> cte_check_raises(sql),
          type |-> t8,
          patterns |->
              (IF group_by THEN <<"GROUP BY aggregation">> ELSE <<>>)
           \o (IF limiting THEN <<"result limiting">> ELSE <<>>)
           \o (IF top_n THEN <<"top-N query">> ELSE <<>>)
           \o (IF left_joins THEN <<"multiple left joins">> ELSE <<>>)
           \o (IF union THEN <<"set operation">> ELSE <<>>)
           \o (IF counting /\ ~group_by THEN <<"record counting">> ELSE <<>>)
           \o (IF star THEN <<"SELECT *">> ELSE <<>>)
           \o (IF with_first THEN <<"CTE (Common Table Expression)">> ELSE <<>>)
           \o (IF dates THEN <<"date range filter">> ELSE <<>>),
          complexity |-> c9 ]

\* lines 1099-1103: some detector raises on the plan and metadata collected
detectors_raise(sql, plan_details, table_stats, index_stats) ==
    \/ cte_check_raises(sql)
    \/ detect_cartesian_products(plan_details).raised
    \/ full_table_scans_raise(plan_details, table_stats, index_stats)

NoFacts == [x \in {} |-> {}]

\* lines 1098-1142: the facts dictionary before filtering
full_facts(sql, xplan, plan_details, tables, m) ==
    [ sql_text |-> sql,
      execution_plan |-> xplan,
      plan_details |-> plan_details,
      table_stats |-> m.table_stats,
      index_stats |-> m.index_stats,
      index_columns |-> m.index_columns,
      partition_tables |-> m.partition_tables,
      partition_keys |-> m.partition_keys,
      column_stats |-> m.column_stats,
      constraints |-> m.constraints,
      optimizer_parameters |-> m.optimizer_parameters,
      segment_sizes |-> m.segment_sizes,
      partition_diagnostics |->
          partition_diagnostics(plan_details, m.partition_tables, sql),
      query_intent |-> classify_query_intent(sql),
      cartesian_detections |-> detect_cartesian_products(plan_details).detections,
      full_table_scans |->
          full_table_scans(plan_details, m.table_stats, m.index_stats,
                           m.column_stats, sql),
      anomalies |-> detect_anomalies(m.table_stats),
      summary |-> [tables |-> Cardinality(tables),
                   indexes |-> Cardinality(m.index_stats)] ]

\* every table row cut down to its basic attributes
all_basic_table_stats(facts, plan_tables) ==
    { [owner |-> t.owner, table_name |-> t.table_name,
       num_rows |-> t.num_rows, blocks |-> t.blocks] : t \in facts.table_stats }

\* the table_stats of the minimal preset: the plan's tables, basic attributes only
minimal_table_stats(facts, plan_tables) ==
    { [owner |-> t.owner, table_name |-> t.table_name,
       num_rows |-> t.num_rows, blocks |-> t.blocks] :
      t \in { x \in facts.table_stats : <<x.owner, x.table_name>> \in plan_tables } }

apply_output_preset(facts, preset, plan_tables, plan_indexes) ==
    IF preset = "standard" THEN facts
    ELSE IF preset = "compact" THEN
        [ sql_text |-> facts.sql_text,
          plan_details |-> facts.plan_details,
          summary |-> facts.summary,
          table_stats |->
              { t \in facts.table_stats : <<t.owner, t.table_name>> \in plan_tables },
          index_stats |->
              { i \in facts.index_stats : <<i.owner, i.index_name>> \in plan_indexes },
          index_columns |->
              { ic \in facts.index_columns :
                  <<Get(ic, "table_owner", None), ic.index_name>> \in plan_indexes },
          column_stats |-> facts.column_stats,
          constraints |-> facts.constraints,
          optimizer_parameters |-> facts.optimizer_parameters,
          segment_sizes |->
              { sg \in facts.segment_sizes :
                  \/ <<sg.owner, sg.segment_name>> \in plan_tables
                  \/ <<sg.owner, sg.segment_name>> \in plan_indexes },
          partition_tables |-> facts.partition_tables,
          partition_keys |-> facts.partition_keys,
          partition_diagnostics |-> facts.partition_diagnostics ]
    ELSE IF preset = "minimal" THEN
        [ sql_text |-> facts.sql_text,
          plan_details |-> facts.plan_details,
          summary |-> facts.summary,
          table_stats |-> minimal_table_stats(facts, plan_tables) ]
    ELSE
        [ sql_text |-> facts.sql_text,
          plan_details |-> facts.plan_details,
          summary |-> facts.summary ]

----------------------------------------------------------------------------
(* History and regression tracker *)

Abs(x) == IF x < 0 THEN 0 - x ELSE x

\* round(100 * num / den, 1) in tenths of a percent, den > 0 (ties to even)
RoundPctTenths(num, den) ==
    LET a == Abs(num) * 1000
        q == a \div den
        r == a % den
        up == IF 2 * r > den THEN 1
              ELSE IF 2 * r = den /\ q % 2 = 1 THEN 1 ELSE 0
        m == q + up
    IN  IF num < 0 THEN 0 - m ELSE m

\* an operation string f"{operation} {options}" kept as the pair it is built from
OpString(st) == <<st.operation, st.options>>

MentionsFull(op) == op[2] \in {"FULL", "FAST FULL SCAN"}
MentionsIndex(op) == op[1] = "INDEX" \/ op[2] = "BY INDEX ROWID"

TopOperations(plan) ==
    [i \in 1..(IF Len(plan) < 5 THEN Len(plan) ELSE 5) |-> OpString(plan[i])]

Returned(value, tracking) == [raised |-> FALSE, value |-> value, tracking |-> tracking]
RaisedTypeError == [raised |-> TRUE, value |-> NoFacts, tracking |-> NoFacts]

\* the empty string given when the facts hold no fingerprint: no digest equals it
NoFingerprint == <<"">>

Tracking(facts, was_regression, pct, plan_changed) ==
    [ fingerprint |-> Get(facts, "fingerprint", NoFingerprint),
      db_name |-> Get(facts, "db_name", ""),
      was_regression |-> was_regression,
      cost_change_pct |-> pct,
      plan_changed |-> plan_changed ]

\* per-table growth of the same-plan branch: last_stats maps a table name to its
\* row count at the previous run
GrowthNew(last_stats, current_tables, t) ==
    IF t \in DOMAIN current_tables THEN current_tables[t] ELSE last_stats[t]

GrowthRaises(last_stats, current_tables) ==
    \E t \in DOMAIN last_stats :
        LET old == last_stats[t]
            new == GrowthNew(last_stats, current_tables, t)
        IN  new # old /\ (old = NULL \/ (old > 0 /\ new = NULL))

table_growth(last_stats, current_tables) ==
    { t \in DOMAIN last_stats :
        LET old == last_stats[t]
            new == GrowthNew(last_stats, current_tables, t)
        IN  new # old /\ old > 0 }

CurrentTables(facts) ==
    LET rows == Get(facts, "table_stats", {})
        names == { r.table_name : r \in rows }
    IN  [ n \in names |-> (CHOOSE r \in rows : r.table_name = n).num_rows ]

compare_with_history(hist, current_facts) ==
    IF hist = <<>> THEN Returned([status |-> "new_query"], NoFacts)
    ELSE
    LET last == hist[1]
        current_plan == Get(current_facts, "plan_details", <<>>)
    IN
    IF current_plan = <<>> THEN Returned([status |-> "no_plan"], NoFacts)
    ELSE
    LET current_plan_hash == Get(current_plan[1], "plan_hash_value", "unknown")
        current_cost == Get(current_plan[1], "cost", 0)
        current_operations == TopOperations(current_plan)
        pct == RoundPctTenths(current_cost - last.cost, last.cost)
        small == Abs(current_cost - last.cost) * 100 < 10 * last.cost
    IN
    IF last.plan_hash = current_plan_hash THEN
        IF current_cost = 0 \/ last.cost = 0 THEN
            Returned([status |-> "stable"], NoFacts)
        ELSE IF current_cost = NULL THEN RaisedTypeError
        ELSE IF small THEN
            Returned([status |-> "stable", cost_change_pct |-> pct],
                     Tracking(current_facts, FALSE, pct, FALSE))
        ELSE IF GrowthRaises(last.table_stats, CurrentTables(current_facts))
            THEN RaisedTypeError
        ELSE
            LET growth == table_growth(last.table_stats, CurrentTables(current_facts))
                is_regression == current_cost > last.cost
            IN  Returned(
                    [ status |-> IF growth # {} THEN "data_growth" ELSE "cost_change",
                      cost_change_pct |-> pct,
                      table_growth |-> growth,
                      is_regression |-> is_regression ],
                    Tracking(current_facts, is_regression, pct, FALSE))
    ELSE
        IF current_cost = 0 \/ last.cost = 0 THEN
            Returned([ status |-> "plan_changed",
                       old_plan_hash |-> last.plan_hash,
                       new_plan_hash |-> current_plan_hash ],
                     Tracking(current_facts, FALSE, NULL, TRUE))
        ELSE IF current_cost = NULL THEN RaisedTypeError
        ELSE
            LET is_better == current_cost < last.cost
                old_ops == last.plan_operations
                has(ops, P(_)) == \E i \in 1..Len(ops) : P(ops[i])
                changes ==
                    (IF has(current_operations, MentionsFull) /\ ~has(old_ops, MentionsFull)
                        THEN {"Added FULL TABLE SCAN"} ELSE {})
                    \cup
                    (IF has(current_operations, MentionsIndex) /\ ~has(old_ops, MentionsIndex)
                        THEN {"Now using INDEX"} ELSE {})
            IN  Returned(
                    [ status |-> "plan_changed",
                      improved |-> is_better,
                      cost_change_pct |-> pct,
                      old_plan_hash |-> last.plan_hash,
                      new_plan_hash |-> current_plan_hash,
                      operation_changes |-> changes,
                      is_regression |-> ~is_better ],
                    Tracking(current_facts, ~is_better, pct, TRUE))

\* normalize_and_hash at token level: trailing terminators dropped, number and
\* string literals replaced by placeholders; the digest is taken as injective
RECURSIVE StripTerminators(_)
StripTerminators(s) ==
    IF s # <<>> /\ s[Len(s)] = ";" THEN StripTerminators(SubSeq(s, 1, Len(s) - 1))
    ELSE s

NumberTokens == {"1"}
StringTokens == {"'OPEN'"}

normalize_and_hash(sql) ==
    LET t == StripTerminators(sql)
    IN  [ i \in 1..Len(t) |->
            IF t[i] \in NumberTokens THEN ":N"
            ELSE IF t[i] \in StringTokens THEN ":S" ELSE t[i] ]

\* the rows of a (fingerprint, db_name) pair in insertion order, newest first
RECURSIVE RecentRows(_, _, _)
RecentRows(rows, fingerprint, db_name) ==
    IF rows = <<>> THEN <<>>
    ELSE LET r == rows[Len(rows)]
             rest == RecentRows(SubSeq(rows, 1, Len(rows) - 1), fingerprint, db_name)
         IN  IF r.fingerprint = fingerprint /\ r.db_name = db_name
                THEN <<r>> \o rest ELSE rest

\* os.getenv("MCP_INSTANCE_ID", "performance_mcp") of this server
mcp_instance_id == "performance_mcp"

\* get_recent_history(days=30, limit=10); times are in seconds
HistoryDays == 30
HistoryLimit == 10
SecondsPerDay == 24 * 60 * 60
HistoryWindow == HistoryDays * SecondsPerDay

\* WHERE fingerprint = $1 AND db_name = $2 AND mcp_instance_id = $3
\*   AND executed_at >= NOW() - INTERVAL '30 days'
Selected(rows, fingerprint, db_name, now) ==
    { i \in 1..Len(rows) :
        /\ rows[i].fingerprint = fingerprint
        /\ rows[i].db_name = db_name
        /\ rows[i].mcp_instance_id = mcp_instance_id
        /\ rows[i].executed_at >= now - HistoryWindow }

\* ORDER BY executed_at ASC
OldestFirst(a, b) == a.executed_at <= b.executed_at

\* ORDER BY executed_at DESC: a may come before b
ComesBefore(a, b) == a.executed_at >= b.executed_at

\* the orders in which the database may return the selected rows
ResultOrders(rows, idx) ==
    { o \in [1..Cardinality(idx) -> idx] :
        /\ \A i, j \in DOMAIN o : i # j => o[i] # o[j]
        /\ \A i, j \in DOMAIN o : i < j => ComesBefore(rows[o[i]], rows[o[j]]) }

\* one row of the result as the dictionary the caller gets
history_entry(row) ==
    [ plan_hash |-> row.plan_hash,
      cost |-> IF row.optimizer_cost = NULL THEN 0 ELSE row.optimizer_cost,
      table_stats |-> row.table_stats,
      plan_operations |-> row.plan_operations ]

\* get_recent_history: every list the call may return
get_recent_history(rows, fingerprint, db_name, now, readOk) ==
    IF ~readOk THEN { <<>> }
    ELSE LET idx == Selected(rows, fingerprint, db_name, now)
             n == IF Cardinality(idx) < HistoryLimit THEN Cardinality(idx)
                  ELSE HistoryLimit
         IN  { [i \in 1..n |-> history_entry(rows[o[i]])] : o \in ResultOrders(rows, idx) }

\* store_history: one row inserted with executed_at = NOW(); a failed insert is
\* logged and dropped
store_history(rows, fingerprint, db_name, plan_hash, cost, table_stats, ops, now, writeOk) ==
    IF ~writeOk THEN rows
    ELSE Append(rows,
            [ fingerprint |-> fingerprint, db_name |-> db_name,
              mcp_instance_id |-> mcp_instance_id, executed_at |-> now,
              plan_hash |-> plan_hash, optimizer_cost |-> cost,
              table_stats |-> table_stats, plan_operations |-> ops,
              was_regression |-> None, cost_change_pct |-> NULL,
              plan_changed |-> None ])

\* _update_regression_tracking: the newest rows of the given pair get the verdict
update_regression_tracking(rows, tr) ==
    IF tr = NoFacts THEN rows
    ELSE LET match == { i \in 1..Len(rows) :
                          /\ rows[i].fingerprint = tr.fingerprint
                          /\ rows[i].db_name = tr.db_name
                          /\ rows[i].mcp_instance_id = mcp_instance_id }
             newest == { i \in match :
                           \A j \in match : rows[j].executed_at <= rows[i].executed_at }
         IN  [ i \in 1..Len(rows) |->
                 IF i \in newest
                   THEN [rows[i] EXCEPT !.was_regression = tr.was_regression,
                                        !.cost_change_pct = tr.cost_change_pct,
                                        !.plan_changed = tr.plan_changed]
                   ELSE rows[i] ]

----------------------------------------------------------------------------
(* Requests *)

DbNames == {"prod"}
Depths == {"standard", "plan_only", "deep"}

IdleReq ==
    [ pc |-> "idle", kind |-> "none",
      sql |-> <<>>, qlen |-> 0, depth |-> "standard", db_name |-> "prod",
      validated |-> FALSE, verdict |-> Verdict(TRUE, FALSE, FALSE),
      original_preset |-> "standard", preset |-> "standard",
      fingerprint |-> <<>>, hist |-> <<>>,
      stmt_id |-> NULL, plan_err |-> FALSE, xplan |-> "none",
      plan_objs |-> [tables |-> {}, indexes |-> {}],
      plan_details |-> <<>>,
      facts |-> NoFacts, executed |-> {}, failing |-> {},
      result |-> "none",
      read_foreign |-> FALSE, deleted_foreign |-> FALSE ]

NoCompare == [phase |-> "off"]

\* every slot carries one request
CanStart(p) ==
    /\ p \in env.live
    /\ req[p].pc = "idle"

Fresh(p, kind, sql) ==
    [IdleReq EXCEPT !.kind = kind, !.sql = sql]

Finished(r, result) == [r EXCEPT !.pc = "done", !.result = result]

Outcomes == IF env.faults THEN {TRUE, FALSE} ELSE {TRUE}

\* the parameters of run_full_oracle_analysis, and the call analyze_oracle_query makes
run_full_oracle_analysis_params == <<"cur", "sql_text">>

CallAccepted(params, npositional, keywords) ==
    /\ npositional <= Len(params)
    /\ keywords = { params[i] : i \in (npositional + 1)..Len(params) }

run_collector_accepts_depth ==
    CallAccepted(run_full_oracle_analysis_params, 2, {"depth"})

\* first statements of run_full_oracle_analysis: the statement id is the clock
EnterCollector(r) == [r EXCEPT !.pc = "explain", !.stmt_id = clock]

Tick ==
    /\ clock < MaxClock
    /\ clock' = clock + 1
    /\ UNCHANGED <<plan_table, output_preset, history, req, env, cmp>>

\* a caller that passes (cur, sql_text), as compare_oracle_query_plans does
CollectorStart(p) ==
    /\ CanStart(p)
    /\ \E sql \in env.sqls :
          req' = [req EXCEPT ![p] = EnterCollector(Fresh(p, "direct", sql))]
    /\ UNCHANGED <<clock, plan_table, output_preset, history, env, cmp>>

ExplainOutcomes ==
    IF env.faults THEN {"ok", "delete_failed", "explain_failed", "display_failed"}
    ELSE {"ok"}

RowsOf(sid) == { r \in plan_table : r.statement_id = sid }

explain_plan(p) ==
    /\ req[p].pc = "explain"
    /\ \E reply \in ExplainOutcomes, plan \in EnginePlans(req[p].sql) :
          LET r == req[p]
              v == validate_sql(normalize_sql(r.sql), TRUE)
              outcome == IF reply = "delete_failed" \/ (v.is_valid /\ ~v.is_dangerous)
                           THEN reply ELSE "refused"
              stale == IF outcome = "delete_failed" THEN {} ELSE RowsOf(r.stmt_id)
              written ==
                  IF outcome \in {"ok", "display_failed"}
                    THEN { [statement_id |-> r.stmt_id, writer |-> p, step |-> st] :
                            st \in StepsOf(plan) }
                    ELSE {}
              ran == {"plan_table_check", "delete_stale"}
                       \cup (IF v.probed /\ outcome # "delete_failed"
                                THEN {"probe"} ELSE {})
                       \cup (IF outcome \in {"delete_failed", "refused"}
                                THEN {} ELSE {"explain"})
                       \cup (IF outcome \in {"ok", "display_failed"}
                                THEN {"xplan_display"} ELSE {})
          IN  /\ plan_table' = (plan_table \ stale) \cup written
              /\ req' = [req EXCEPT ![p] =
                    [r EXCEPT !.pc = "read",
                              !.plan_err = (outcome # "ok"),
                              !.xplan = IF outcome = "ok" THEN "lines" ELSE "failed",
                              !.executed = @ \cup ran,
                              !.deleted_foreign =
                                  @ \/ \E x \in stale : x.writer # p]]
    /\ UNCHANGED <<clock, output_preset, history, env, cmp>>

\* get_plan_objects and get_plan_details: each returns empty when its query raises
ReadPlan(p) ==
    /\ req[p].pc = "read"
    /\ \E objsOk \in Outcomes, detailsOk \in Outcomes :
       \E ordered \in RowsOrderedById(RowsOf(req[p].stmt_id)) :
          LET r == req[p]
              rows == RowsOf(r.stmt_id)
              steps == { x.step : x \in rows }
          IN  req' = [req EXCEPT ![p] =
                [r EXCEPT !.pc = "collect",
                          !.plan_objs =
                              IF objsOk
                                THEN [tables |-> plan_tables_of(steps),
                                      indexes |-> plan_indexes_of(steps)]
                                ELSE [tables |-> {}, indexes |-> {}],
                          !.plan_details =
                              IF detailsOk
                                THEN [i \in 1..Len(ordered) |-> ordered[i].step]
                                ELSE <<>>,
                          !.executed = @ \cup {"plan_objects", "plan_details"},
                          !.read_foreign =
                              @ \/ ((objsOk \/ detailsOk)
                                      /\ \E x \in rows : x.writer # p)]]
    /\ UNCHANGED <<clock, plan_table, output_preset, history, env, cmp>>

AllFailingSets == { F \in SUBSET MetaQueries : Cardinality(F) <= MaxFailures }

\* the metadata queries that fail during one run, among those the run can issue
FailingSets(preset, tables, sql_cols) ==
    LET uq == UnguardedQueries(preset, tables, sql_cols)
        issued == { uq[i] : i \in 1..Len(uq) }
                  \cup GuardedQueries(preset, tables, {"dba_segments"})
    IN  IF env.faults THEN { F \in AllFailingSets : F \subseteq issued } ELSE { {} }

TableRowCounts(facts) == CurrentTables(facts)

HighCostFloor == 100
LowCostCeiling == 10
LargeLoopFloor == 10000

\* get_operation_warning: a comparison of a null cost with a number raises
get_operation_warning(operation, options0, cost, cardinality) ==
    LET options == IF options0 = None THEN "" ELSE options0
        full == operation = "TABLE ACCESS" /\ options = "FULL"
        range == operation = "INDEX" /\ InText("RANGE SCAN", options)
    IN  [ raised |-> (full \/ range) /\ cost = NULL,
          warnings |->
              (IF full /\ cost > HighCostFloor THEN <<"HIGH-COST FULL SCAN">> ELSE <<>>)
           \o (IF InText("INDEX", operation) /\ InText("SKIP SCAN", options)
                 THEN <<"SKIP SCAN">> ELSE <<>>)
           \o (IF InText("NESTED LOOPS", operation) /\ cardinality # NULL
                     /\ cardinality > LargeLoopFloor
                 THEN <<"LARGE NESTED LOOP">> ELSE <<>>)
           \o (IF InText("PARTITION", options) /\ InText("ALL", options)
                 THEN <<"ALL PARTITIONS">> ELSE <<>>)
           \o (IF InText("CARTESIAN", operation) THEN <<"CARTESIAN JOIN">> ELSE <<>>)
           \o (IF range /\ cost # NULL /\ cost < LowCostCeiling THEN <<"OK">> ELSE <<>>)
           \o (IF operation = "INDEX" /\ InText("UNIQUE SCAN", options)
                 THEN <<"OK">> ELSE <<>>) ]

\* the line build_visual_plan writes for step i of the plan: the prefix comes from
\* the step's "depth" entry (0 when the step has none)
visual_line(plan, i) ==
    LET depth == Get(plan[i], "depth", 0)
        later == { j \in (i + 1)..Len(plan) : Get(plan[j], "depth", 0) <= depth }
        is_last == \/ later = {}
                   \/ Get(plan[CHOOSE j \in later : \A k \in later : j <= k],
                          "depth", 0) # depth
    IN  [ step |-> TRUE,
          indent |-> IF depth = 0 THEN 0 ELSE depth - 1,
          branch |-> IF depth = 0 THEN "" ELSE IF is_last THEN "corner" ELSE "tee",
          operation |-> plan[i].operation, options |-> plan[i].options,
          object_name |-> plan[i].object_name,
          cost |-> plan[i].cost, cardinality |-> plan[i].cardinality,
          warning |-> get_operation_warning(plan[i].operation, plan[i].options,
                                            plan[i].cost, plan[i].cardinality).warnings ]

BlankLine == [step |-> FALSE, text |-> ""]

\* build_visual_plan: the lines of the text it returns, or the exception it raises
build_visual_plan(plan) ==
    IF plan = <<>>
      THEN [raised |-> FALSE,
            lines |-> << [step |-> FALSE, text |-> "No execution plan available"] >>]
    ELSE IF \E i \in 2..Len(plan) :
               get_operation_warning(plan[i].operation, plan[i].options,
                                     plan[i].cost, plan[i].cardinality).raised
      THEN [raised |-> TRUE, lines |-> <<>>]
    ELSE [raised |-> FALSE,
          lines |-> << [step |-> TRUE, indent |-> 0, branch |-> "",
                        operation |-> plan[1].operation, total_cost |-> plan[1].cost],
                       BlankLine >>
                    \o [ i \in 1..(Len(plan) - 1) |-> visual_line(plan, i + 1) ]]

\* get_plan_summary
get_plan_summary(plan) ==
    [ total_steps |-> Len(plan),
      full_table_scans |->
          Cardinality({ i \in 1..Len(plan) :
                          plan[i].operation = "TABLE ACCESS" /\ plan[i].options = "FULL" }),
      index_operations |->
          Cardinality({ i \in 1..Len(plan) : InText("INDEX", plan[i].operation) }),
      nested_loops |->
          Cardinality({ i \in 1..Len(plan) : InText("NESTED LOOPS", plan[i].operation) }),
      hash_joins |->
          Cardinality({ i \in 1..Len(plan) : InText("HASH JOIN", plan[i].operation) }) ]

\* analyze_oracle_query after the collector has returned (lines 183-277)
ToolPost(r, facts, rows, updateOk, writeOk) ==
    LET plan_details == Get(facts, "plan_details", <<>>)
        visual == build_visual_plan(plan_details)
        res == compare_with_history(r.hist, facts)
    IN  IF (plan_details # <<>> /\ visual.raised) \/ (r.hist # <<>> /\ res.raised)
          THEN [req |-> Finished(r, "internal_error"), history |-> rows]
          ELSE
            LET context == IF r.hist # <<>> THEN res.value
                           ELSE [status |-> "new_query"]
                rows1 == IF r.hist # <<>> /\ updateOk
                           THEN update_regression_tracking(rows, res.tracking)
                           ELSE rows
                seen == IF plan_details # <<>>
                          THEN [visual_plan |-> visual.lines,
                                plan_summary |-> get_plan_summary(plan_details)] @@ facts
                          ELSE facts
                out == IF r.hist # <<>>
                         THEN [historical_context |-> context,
                               history_count |-> Len(r.hist)] @@ seen
                         ELSE [historical_context |-> context] @@ seen
                rows2 == IF r.depth = "standard" /\ plan_details # <<>>
                           THEN store_history(rows1, r.fingerprint, r.db_name,
                                    Get(plan_details[1], "plan_hash_value", "unknown"),
                                    Get(plan_details[1], "cost", 0),
                                    TableRowCounts(facts),
                                    TopOperations(plan_details), clock, writeOk)
                           ELSE rows1
            IN  [req |-> [Finished(r, "ok") EXCEPT !.facts = out], history |-> rows2]

\* run_full_oracle_analysis from the metadata queries to its return
Collect(p) ==
    /\ req[p].pc = "collect"
    /\ \E failing \in FailingSets(output_preset,
                                   req[p].plan_objs.tables
                                       \cup extract_sql_objects(normalize_sql(req[p].sql)),
                                   extract_columns_from_sql(normalize_sql(req[p].sql))),
          cleanupOk \in Outcomes, updateOk \in Outcomes, writeOk \in Outcomes :
          LET r == req[p]
              sql == normalize_sql(r.sql)
              tables == r.plan_objs.tables \cup extract_sql_objects(sql)
              sql_cols == extract_columns_from_sql(sql)
              preset == output_preset
              m == CollectMetadata(preset, tables, sql_cols, failing)
              r1 == [r EXCEPT !.executed = @ \cup m.executed,
                              !.failing = failing, !.preset = preset]
              mine == RowsOf(r.stmt_id)
              r2 == [r1 EXCEPT !.executed = @ \cup {"cleanup_delete"},
                               !.failing = IF cleanupOk THEN @
                                           ELSE @ \cup {"cleanup_delete"},
                               !.deleted_foreign =
                                   @ \/ (cleanupOk /\ \E x \in mine : x.writer # p)]
              facts == apply_output_preset(
                          full_facts(sql, r.xplan, r.plan_details, tables, m),
                          preset, r.plan_objs.tables, r.plan_objs.indexes)
              post == ToolPost(r2, facts, history, updateOk, writeOk)
          IN  IF m.raised \/ detectors_raise(sql, r.plan_details, m.table_stats,
                                             m.index_stats)
                THEN /\ req' = [req EXCEPT ![p] =
                            Finished(r1, IF r.kind = "tool" THEN "internal_error"
                                         ELSE "raised")]
                     /\ UNCHANGED <<plan_table, history>>
                     /\ output_preset' =
                            IF r.kind = "tool" THEN r.original_preset ELSE output_preset
                ELSE /\ plan_table' = IF cleanupOk THEN plan_table \ mine ELSE plan_table
                     /\ IF r.kind = "tool"
                          THEN /\ req' = [req EXCEPT ![p] = post.req]
                               /\ history' = post.history
                               /\ output_preset' = r.original_preset
                          ELSE /\ req' = [req EXCEPT ![p] =
                                      [Finished(r2, "ok") EXCEPT !.facts = facts]]
                               /\ UNCHANGED <<history, output_preset>>
    /\ UNCHANGED <<clock, env, cmp>>

CompactAt == 10000
MinimalAt == 50000

\* the preset analyze_oracle_query switches to for a text of qlen characters
AdjustedPreset(original, qlen) ==
    IF qlen >= MinimalAt THEN "minimal"
    ELSE IF qlen >= CompactAt /\ original = "standard" THEN "compact"
    ELSE original

\* run_collector(cur, sql_text, depth=depth) and the finally/except around it
ToolCallCollector(p, r) ==
    IF run_collector_accepts_depth
      THEN /\ req' = [req EXCEPT ![p] = EnterCollector(r)]
           /\ output_preset' = AdjustedPreset(r.original_preset, r.qlen)
      ELSE /\ req' = [req EXCEPT ![p] = Finished(r, "internal_error")]
           /\ output_preset' = r.original_preset

\* analyze_oracle_query up to its first suspension (await get_recent_history)
ToolStart(p) ==
    /\ CanStart(p)
    /\ \E sql \in env.sqls, qlen \in QueryLengths, depth \in Depths,
          db \in DbNames, connectOk \in Outcomes, probeOk \in Outcomes :
          LET r0 == [Fresh(p, "tool", sql) EXCEPT
                        !.qlen = qlen, !.depth = depth, !.db_name = db,
                        !.original_preset = output_preset]
              v == validate_sql(sql, probeOk)
              r1 == [r0 EXCEPT !.validated = TRUE, !.verdict = v,
                               !.executed = IF v.probed THEN {"probe"} ELSE {}]
              stop(r, result) ==
                  /\ req' = [req EXCEPT ![p] = Finished(r, result)]
                  /\ UNCHANGED output_preset
          IN  IF depth \notin {"plan_only", "standard"} THEN stop(r0, "error_depth")
              ELSE IF sql = <<>> THEN stop(r0, "error_empty")
              ELSE IF ~connectOk THEN stop(r0, "internal_error")
              ELSE IF v.is_dangerous THEN stop(r1, "security_block")
              ELSE IF ~v.is_valid THEN stop(r1, "invalid_sql")
              ELSE IF depth = "standard"
                THEN /\ req' = [req EXCEPT ![p] =
                            [r1 EXCEPT !.pc = "t_history",
                                       !.fingerprint = normalize_and_hash(sql)]]
                     /\ output_preset' = AdjustedPreset(output_preset, qlen)
                ELSE ToolCallCollector(p, r1)
    /\ UNCHANGED <<clock, plan_table, history, env, cmp>>

\* the history read completes and the tool calls the collector
ToolResume(p) ==
    /\ req[p].pc = "t_history"
    /\ \E readOk \in Outcomes :
       \E hist \in get_recent_history(history, req[p].fingerprint, req[p].db_name,
                                      clock, readOk) :
          LET r == req[p]
          IN  ToolCallCollector(p, [r EXCEPT !.hist = hist,
                                             !.executed = @ \cup {"history_read"},
                                             !.failing =
                                                 IF readOk THEN {} ELSE {"history_read"}])
    /\ UNCHANGED <<clock, plan_table, history, env, cmp>>

\* analyze_mysql_query: get_recent_history is called without await, so `history`
\* is a coroutine object: it is truthy and has no len()
analyze_mysql_query(p) ==
    /\ CanStart(p)
    /\ \E sql \in env.sqls, connectOk \in Outcomes, probeOk \in Outcomes :
          LET r0 == Fresh(p, "mysql", sql)
              v == mysql_validate_sql(sql, probeOk)
              r1 == [r0 EXCEPT !.validated = TRUE, !.verdict = v,
                               !.executed = IF v.probed THEN {"mysql_explain_probe"}
                                            ELSE {}]
              history_is_truthy == TRUE
              history_has_len == FALSE
              r2 == [r1 EXCEPT !.executed = @ \cup {"mysql_explain"},
                               !.fingerprint = normalize_and_hash(sql)]
          IN  req' = [req EXCEPT ![p] =
                IF ~connectOk THEN Finished(r0, "internal_error")
                ELSE IF v.is_dangerous THEN Finished(r1, "security_block")
                ELSE IF ~v.is_valid THEN Finished(r1, "invalid_sql")
                ELSE IF history_is_truthy /\ ~history_has_len
                    THEN Finished(r2, "internal_error")
                ELSE Finished(r2, "ok")]
    /\ UNCHANGED <<clock, plan_table, output_preset, history, env, cmp>>

----------------------------------------------------------------------------
(* compare_with_history on its own: inputs drawn from bounded sets *)

CostValues == {0, 60, 90, 91, 100, 109, 110}
RowValues == {0, 1000, 2000}
HashValues == {"h1", "h2"}

PriorRecords ==
    { [ plan_hash |-> h, cost |-> c, table_stats |-> ts,
        plan_operations |-> TopOperations(PlanFull) ] :
      h \in {"unknown", "h1"}, c \in CostValues,
      ts \in { [t \in {"ORDERS"} |-> n] : n \in {NULL, 0, 1000} } }

OlderRecord ==
    [ plan_hash |-> "h2", cost |-> 60, table_stats |-> [t \in {"ORDERS"} |-> 1000],
      plan_operations |-> TopOperations(PlanIndex) ]

Histories ==
    {<<>>} \cup { <<r>> : r \in PriorRecords }
           \cup { <<r, OlderRecord>> : r \in { x \in PriorRecords : x.cost = 100 } }

CurrentRoots ==
    { [PlanIndex[1] EXCEPT !.cost = c] : c \in CostValues \cup {NULL} }
    \cup { [plan_hash_value |-> h] @@ [PlanIndex[1] EXCEPT !.cost = c] :
             h \in HashValues, c \in CostValues \cup {NULL} }

CurrentFacts ==
    { [ plan_details |-> pd, table_stats |-> ts ] :
      pd \in {<<>>} \cup { <<root, PlanIndex[2], PlanIndex[3]>> : root \in CurrentRoots },
      ts \in { {} } \cup { { [owner |-> "APP", table_name |-> "ORDERS", num_rows |-> n] } :
                             n \in RowValues \cup {NULL} } }

Compare ==
    /\ cmp.phase = "input"
    /\ cmp' = [ phase |-> "done", hist |-> cmp.hist, facts |-> cmp.facts,
                out |-> compare_with_history(cmp.hist, cmp.facts) ]
    /\ UNCHANGED <<clock, plan_table, output_preset, history, req, env>>

----------------------------------------------------------------------------
(* get_recent_history followed by compare_with_history over a stored history *)

MaxStored == 2

ReadTime == HistoryWindow + 1
StoreTimes == {0, ReadTime - 1, ReadTime}

ReadFingerprint == normalize_and_hash(SqlOpenOrders)
ReadDb == "prod"

\* the (fingerprint, db_name, mcp_instance_id) of a stored row: those of the
\* reader, or differing from them in one component
StoredKeys ==
    { <<ReadFingerprint, ReadDb, mcp_instance_id>>,
      <<normalize_and_hash(SqlQualified), ReadDb, mcp_instance_id>>,
      <<ReadFingerprint, "test", mcp_instance_id>>,
      <<ReadFingerprint, ReadDb, "other_mcp">> }

StoredRows ==
    { [ fingerprint |-> k[1], db_name |-> k[2], mcp_instance_id |-> k[3],
        executed_at |-> t, plan_hash |-> "unknown", optimizer_cost |-> c,
        table_stats |-> [n \in {"ORDERS"} |-> 100000],
        plan_operations |-> TopOperations(PlanFull),
        was_regression |-> None, cost_change_pct |-> NULL, plan_changed |-> None ] :
      k \in StoredKeys, t \in StoreTimes, c \in {NULL, 60, 100} }

\* rows are inserted with executed_at = NOW(), so later rows are not older
Stores ==
    { st \in UNION { [1..n -> StoredRows] : n \in 0..MaxStored } :
        \A i, j \in DOMAIN st : i < j => st[i].executed_at <= st[j].executed_at }

ReadFacts ==
    [ plan_details |-> PlanFull,
      table_stats |-> { [owner |-> "APP", table_name |-> "ORDERS", num_rows |-> 100000] } ]

\* `after` is the store once compare_with_history has recorded its verdict
ReadCompare ==
    /\ cmp.phase = "stored"
    /\ \E hist \in get_recent_history(cmp.store, ReadFingerprint, ReadDb, ReadTime,
                                      cmp.readOk) :
          LET out == compare_with_history(hist, ReadFacts)
          IN  cmp' = [ phase |-> "compared", store |-> cmp.store,
                       readOk |-> cmp.readOk, hist |-> hist, out |-> out,
                       after |-> update_regression_tracking(cmp.store, out.tracking) ]
    /\ UNCHANGED <<clock, plan_table, output_preset, history, req, env>>

----------------------------------------------------------------------------
(* normalize_and_hash on the characters of a text *)

Digits == {"1", "2"}
Letters == {"a", "c", "d", "i", "n", "t", "x", "A", "C", "D", "I", "N", "T", "X"}
WordChars == Digits \cup Letters \cup {"_"}

\* the last index of the run of digits that starts at i
RECURSIVE DigitRunEnd(_, _)
DigitRunEnd(s, i) ==
    IF i < Len(s) /\ s[i + 1] \in Digits THEN DigitRunEnd(s, i + 1) ELSE i

\* re.sub(r'\b\d+\b', ':N', sql), from position i on
RECURSIVE SubNumbers(_, _)
SubNumbers(s, i) ==
    IF i > Len(s) THEN <<>>
    ELSE IF s[i] \in Digits /\ (i = 1 \/ s[i - 1] \notin WordChars)
      THEN LET j == DigitRunEnd(s, i)
           IN  IF j = Len(s) \/ s[j + 1] \notin WordChars
                 THEN <<":N">> \o SubNumbers(s, j + 1)
                 ELSE SubSeq(s, i, j) \o SubNumbers(s, j + 1)
    ELSE <<s[i]>> \o SubNumbers(s, i + 1)

\* re.sub(r"'[^']*'", ':S', normalized), from position i on
RECURSIVE SubStrings(_, _)
SubStrings(s, i) ==
    IF i > Len(s) THEN <<>>
    ELSE LET closing == { k \in (i + 1)..Len(s) : s[k] = "'" }
         IN  IF s[i] = "'" /\ closing # {}
               THEN <<":S">> \o SubStrings(s, (CHOOSE k \in closing :
                                                  \A m \in closing : k <= m) + 1)
               ELSE <<s[i]>> \o SubStrings(s, i + 1)

\* re.sub(r'\s+', ' ', normalized)
RECURSIVE CollapseSpaces(_)
CollapseSpaces(s) ==
    IF Len(s) < 2 THEN s
    ELSE IF s[1] = " " /\ s[2] = " " THEN CollapseSpaces(Tail(s))
    ELSE <<s[1]>> \o CollapseSpaces(Tail(s))

\* str.strip()
RECURSIVE Strip(_)
Strip(s) ==
    IF s # <<>> /\ s[1] = " " THEN Strip(Tail(s))
    ELSE IF s # <<>> /\ s[Len(s)] = " " THEN Strip(SubSeq(s, 1, Len(s) - 1))
    ELSE s

\* str.rstrip(';')
RECURSIVE RStripSemicolons(_)
RStripSemicolons(s) ==
    IF s # <<>> /\ s[Len(s)] = ";" THEN RStripSemicolons(SubSeq(s, 1, Len(s) - 1))
    ELSE s

UpperChar(c) ==
    CASE c = "a" -> "A" [] c = "c" -> "C" [] c = "d" -> "D" [] c = "i" -> "I"
      [] c = "n" -> "N" [] c = "t" -> "T" [] c = "x" -> "X" [] OTHER -> c

\* the text whose MD5 digest is the fingerprint; the digest is taken as injective
normalized_text(chars) ==
    IF chars = <<>> THEN <<>>
    ELSE LET sql == Strip(RStripSemicolons(chars))
             numbers == SubNumbers(sql, 1)
             strings == SubStrings(numbers, 1)
             spaced == Strip(CollapseSpaces(strings))
         IN  [i \in 1..Len(spaced) |-> UpperChar(spaced[i])]

\* texts of the form <identifier> = <literal>
Identifiers ==
    { <<"i", "d">>, <<"n", "a">>, <<"t", "1">>, <<"t", "2">>,
      <<"c", "#", "1">>, <<"c", "#", "2">> }

IntegerLiterals == { <<"1">>, <<"2", "1">> }
StringLiterals ==
    { <<"'", "x", "'">>, <<"'", "1", "'">>, <<"'", "a", "'", "'", "d", "'">> }

LiteralKind(lit) == IF lit \in IntegerLiterals THEN "number" ELSE "string"

Predicates ==
    { [ident |-> id, literal |-> lit] :
        id \in Identifiers, lit \in IntegerLiterals \cup StringLiterals }

TextOf(pred) == pred.ident \o <<" ", "=", " ">> \o pred.literal

Fingerprint ==
    /\ cmp.phase = "texts"
    /\ cmp' = [ phase |-> "hashed", a |-> cmp.a, b |-> cmp.b,
                fa |-> normalized_text(TextOf(cmp.a)),
                fb |-> normalized_text(TextOf(cmp.b)) ]
    /\ UNCHANGED <<clock, plan_table, output_preset, history, req, env>>

----------------------------------------------------------------------------
(* normalize_and_hash over two spellings of one statement *)

\* what follows the statement: nothing, or terminators with whitespace around
Endings == { <<>>, <<";">>, <<" ", ";">>, <<";", " ">>, <<" ", ";", " ">>, <<";", ";">> }

\* whitespace between tokens written once or twice, and before the statement
RECURSIVE WidenSpaces(_)
WidenSpaces(s) ==
    IF s = <<>> THEN <<>>
    ELSE IF s[1] = " " THEN <<" ", " ">> \o WidenSpaces(Tail(s))
    ELSE <<s[1]>> \o WidenSpaces(Tail(s))

Spacings == {"single", "double", "leading"}

Spaced(s, spacing) ==
    CASE spacing = "single" -> s
      [] spacing = "double" -> WidenSpaces(s)
      [] OTHER -> <<" ">> \o s

Cases == {"lower", "upper"}

\* the statement in lower case as the inputs spell it, or in upper case
Cased(s, case) == IF case = "lower" THEN s ELSE [i \in 1..Len(s) |-> UpperChar(s[i])]

Spelling(pred, v) == Spaced(Cased(TextOf(pred), v.case), v.spacing) \o v.ending

Spellings == [case : Cases, spacing : Spacings, ending : Endings]

\* line 172 of analyze_oracle_query, for the plain spelling and another one
FingerprintSpelling ==
    /\ cmp.phase = "spellings"
    /\ cmp' = [ phase |-> "fingerprinted", pred |-> cmp.pred, spelling |-> cmp.spelling,
                plain |-> normalized_text(TextOf(cmp.pred)),
                other |-> normalized_text(Spelling(cmp.pred, cmp.spelling)) ]
    /\ UNCHANGED <<clock, plan_table, output_preset, history, req, env>>

----------------------------------------------------------------------------
(* The detectors of run_full_oracle_analysis over collected metadata *)

MaxPartitions == 3

\* PARTITION_START / PARTITION_STOP of a step on a table of n partitions
PartitionRanges(n) ==
    LET marks == { str(k) : k \in 1..n } \cup {"KEY"}
    IN  { <<str(r[1]), str(r[2])>> : r \in { x \in (1..n) \X (1..n) : x[1] <= x[2] } }
        \cup { <<"KEY", m>> : m \in marks } \cup { <<m, "KEY">> : m \in marks }

PartitionedPlan(n, range) ==
    LET opt == IF range[1] = range[2] /\ range[1] # "KEY" THEN "SINGLE"
               ELSE IF range = <<"1", str(n)>> THEN "ALL" ELSE "ITERATOR"
    IN  << Step(0, NULL, "SELECT STATEMENT", None, None, None, None, 40, 500,
                None, None, None, None),
           Step(1, 0, "PARTITION RANGE", opt, None, None, None, 40, 500,
                None, None, range[1], range[2]),
           Step(2, 1, "TABLE ACCESS", "FULL", "APP", "SALES", "TABLE", 40, 500,
                None, None, range[1], range[2]) >>

SalesTable ==
    [owner |-> "APP", table_name |-> "SALES", num_rows |-> 500,
     blocks |-> 20, partitioned |-> "YES"]

PartTable(owner, name, n) ==
    [owner |-> owner, table_name |-> name, partitioning_type |-> "RANGE",
     partition_count |-> n]

IndexPool ==
    all_indexes
    \cup { [owner |-> "HR", index_name |-> "EMP_PK", table_name |-> "EMP",
            index_type |-> "NORMAL", status |-> "VALID"] }

SqlSales == <<"SELECT", "*", "FROM", "SALES", "WHERE", "SOLD_ON", ">", ":1">>

\* what lines 1062-1096 may have collected for a statement without partitions
ScanInputs ==
    { [plan |-> pl, sql |-> q, table_stats |-> ts, index_stats |-> ix,
       column_stats |-> cs, part_tables |-> {}] :
        pl \in {PlanFull, PlanIndex, PlanEmp},
        q \in {SqlOpenOrders, SqlQualified},
        ts \in SUBSET all_tables,
        ix \in SUBSET IndexPool,
        cs \in SUBSET all_tab_col_statistics }

\* ... and for a statement on a partitioned table
PartitionInputs ==
    UNION { { [plan |-> PartitionedPlan(n, range), sql |-> SqlSales,
               table_stats |-> {SalesTable}, index_stats |-> ix,
               column_stats |-> {}, part_tables |-> pts] :
                range \in PartitionRanges(n),
                ix \in {{}, all_indexes},
                pts \in { {}, {PartTable("APP", "SALES", n)},
                          {PartTable("APP", "SALES", n),
                           PartTable("APP", "ARCHIVE", 1)} } } :
            n \in 1..MaxPartitions }

DetectInputs ==
    { c \in ScanInputs :
        \A x \in c.column_stats : x.column_name \in extract_columns_from_sql(c.sql) }
    \cup PartitionInputs

\* lines 1098-1103 of run_full_oracle_analysis; nothing is kept of the findings
\* when a detector raises
Detect ==
    /\ cmp.phase = "metadata"
    /\ LET c == cmp.input
           raised == detectors_raise(c.sql, c.plan, c.table_stats, c.index_stats)
       IN  cmp' = [ phase |-> "detected", input |-> c, raised |-> raised,
                    partition_diagnostics |->
                        IF raised THEN {}
                        ELSE partition_diagnostics(c.plan, c.part_tables, c.sql),
                    full_table_scans |->
                        IF raised THEN {}
                        ELSE full_table_scans(c.plan, c.table_stats, c.index_stats,
                                              c.column_stats, c.sql) ]
    /\ UNCHANGED <<clock, plan_table, output_preset, history, req, env>>

----------------------------------------------------------------------------
(* The plan tree functions over the join plans the engine can write *)

JoinKinds ==
    { <<"NESTED LOOPS", None>>, <<"NESTED LOOPS", "OUTER">>, <<"MERGE JOIN", None>>,
      <<"MERGE JOIN", "CARTESIAN">>, <<"HASH JOIN", None>> }

JoinCardinalities == {NULL, 10, CartesianFloor, CartesianFloor + 1}

\* the access and filter predicates of the step after the join step
OuterPredicates == { <<None, None>>, <<"ID=:1", None>>, <<None, "STATUS='OPEN'">> }

\* costs: unknown under the rule-based optimizer, else on either side of a floor
ScanCosts == {NULL, HighCostFloor, HighCostFloor + 1}
ProbeCosts == {NULL, LowCostCeiling - 1, LowCostCeiling}

\* SELECT STATEMENT over one join of a full scan with an index probe
JoinPlan(join, card, pred, scan_cost, probe_cost) ==
    << Step(0, NULL, "SELECT STATEMENT", None, None, None, None, scan_cost, card,
            None, None, None, None),
       Step(1, 0, join[1], join[2], None, None, None, scan_cost, card,
            None, None, None, None),
       Step(2, 1, "TABLE ACCESS", "FULL", "APP", "ORDERS", "TABLE", scan_cost, 100000,
            pred[1], pred[2], None, None),
       Step(3, 1, "INDEX", "RANGE SCAN", "APP", "ORDERS_STATUS_IX", "INDEX",
            probe_cost, 10, "STATUS='OPEN'", None, None, None) >>

\* two joins, the second inside the first
NestedJoinPlan(outer, inner, card) ==
    << Step(0, NULL, "SELECT STATEMENT", None, None, None, None, 400, card,
            None, None, None, None),
       Step(1, 0, outer[1], outer[2], None, None, None, 400, card,
            None, None, None, None),
       Step(2, 1, inner[1], inner[2], None, None, None, 300, card,
            None, None, None, None),
       Step(3, 2, "TABLE ACCESS", "FULL", "APP", "ORDERS", "TABLE", 200, 100000,
            None, None, None, None),
       Step(4, 2, "INDEX", "RANGE SCAN", "APP", "ORDERS_STATUS_IX", "INDEX",
            2, 10, "STATUS='OPEN'", None, None, None),
       Step(5, 1, "TABLE ACCESS", "FULL", "HR", "EMP", "TABLE", 3, 14,
            None, None, None, None) >>

PlanTrees ==
    { JoinPlan(j, c, pr, sc, pc) :
        j \in JoinKinds, c \in JoinCardinalities, pr \in OuterPredicates,
        sc \in ScanCosts, pc \in ProbeCosts }
    \cup { NestedJoinPlan(o, i, c) :
             o \in JoinKinds, i \in JoinKinds, c \in JoinCardinalities }
    \cup { PlanFull, PlanIndex, PlanEmp }

\* the depth of step i in the tree its parent_id entries describe
RECURSIVE TreeDepth(_, _)
TreeDepth(plan, i) ==
    IF plan[i].parent_id = NULL THEN 0
    ELSE 1 + TreeDepth(plan, CHOOSE j \in 1..Len(plan) : plan[j].id = plan[i].parent_id)

\* lines 190-193 of analyze_oracle_query
Render ==
    /\ cmp.phase = "tree"
    /\ cmp' = [ phase |-> "rendered", plan |-> cmp.plan,
                visual |-> build_visual_plan(cmp.plan),
                summary |-> get_plan_summary(cmp.plan) ]
    /\ UNCHANGED <<clock, plan_table, output_preset, history, req, env>>

\* line 1101 of run_full_oracle_analysis
Cartesian ==
    /\ cmp.phase = "tree"
    /\ cmp' = [ phase |-> "searched", plan |-> cmp.plan,
                cartesian |-> detect_cartesian_products(cmp.plan) ]
    /\ UNCHANGED <<clock, plan_table, output_preset, history, req, env>>

----------------------------------------------------------------------------
(* classify_query_intent over statements put together from clauses *)

SelectLists == { <<"*">>, <<"COUNT", "(", "*", ")">>, <<"ID">> }

JoinOn(kind, table) == kind \o <<table, "USING", "(", "ID", ")">>

JoinClauses ==
    { <<>>,
      JoinOn(<<"LEFT", "JOIN">>, "B") \o JoinOn(<<"LEFT", "JOIN">>, "C"),
      JoinOn(<<"JOIN">>, "B") \o JoinOn(<<"JOIN">>, "C")
          \o JoinOn(<<"JOIN">>, "D") \o JoinOn(<<"JOIN">>, "E") }

WhereClauses ==
    { <<>>, <<"WHERE", "ROWNUM", "<=", "10">>, <<"WHERE", "B", ".", "ID", "IS", "NULL">>,
      <<"WHERE", "ROWNUM", "<=", "10", "AND", "B", ".", "ID", "IS", "NULL">> }

Optional(clause) == { <<>>, clause }

IntentTexts ==
    { <<"SELECT">> \o sel \o <<"FROM", "A">> \o jn \o wh \o grp \o un \o ord :
        sel \in SelectLists, jn \in JoinClauses, wh \in WhereClauses,
        grp \in Optional(<<"GROUP", "BY", "ID">>),
        un \in Optional(<<"UNION", "SELECT", "ID", "FROM", "F">>),
        ord \in Optional(<<"ORDER", "BY", "ID">>) }

\* line 1100 of run_full_oracle_analysis
Classify ==
    /\ cmp.phase = "sql"
    /\ cmp' = [ phase |-> "classified", sql |-> cmp.sql,
                intent |-> classify_query_intent(cmp.sql) ]
    /\ UNCHANGED <<clock, plan_table, output_preset, history, req, env>>

----------------------------------------------------------------------------
(* Specifications *)

InitCommon ==
    /\ clock = 0
    /\ plan_table = {}
    /\ history = <<>>
    /\ req = [p \in Procs |-> IdleReq]

\* one request stream; the database and the history store may fail
Init ==
    /\ InitCommon
    /\ output_preset \in Presets
    /\ env = [faults |-> TRUE, live |-> {1}, sqls |-> SqlTexts,
              configured |-> output_preset]
    /\ cmp = NoCompare

\* concurrent request streams over a database that answers every statement
InitConc ==
    /\ InitCommon
    /\ output_preset \in Presets
    /\ env \in { [faults |-> FALSE, live |-> L, sqls |-> {SqlOpenOrders, SqlQualified},
                  configured |-> output_preset] :
                 L \in { S \in SUBSET Procs : Cardinality(S) = 2 } }
    /\ cmp = NoCompare

InitCompare ==
    /\ InitCommon
    /\ output_preset = "standard"
    /\ env = [faults |-> FALSE, live |-> {}, sqls |-> {}, configured |-> "standard"]
    /\ cmp \in { [phase |-> "input", hist |-> h, facts |-> f] :
                   h \in Histories, f \in CurrentFacts }

InitHistory ==
    /\ InitCommon
    /\ output_preset = "standard"
    /\ env = [faults |-> FALSE, live |-> {}, sqls |-> {}, configured |-> "standard"]
    /\ cmp \in { [phase |-> "stored", store |-> st, readOk |-> ok] :
                   st \in Stores, ok \in BOOLEAN }

InitFingerprint ==
    /\ InitCommon
    /\ output_preset = "standard"
    /\ env = [faults |-> FALSE, live |-> {}, sqls |-> {}, configured |-> "standard"]
    /\ cmp \in { [phase |-> "texts", a |-> x, b |-> y] :
                   x \in Predicates, y \in Predicates }

Next ==
    \/ Tick
    \/ \E p \in Procs : CollectorStart(p)
    \/ \E p \in Procs : explain_plan(p)
    \/ \E p \in Procs : ReadPlan(p)
    \/ \E p \in Procs : Collect(p)
    \/ \E p \in Procs : ToolStart(p)
    \/ \E p \in Procs : ToolResume(p)
    \/ \E p \in Procs : analyze_mysql_query(p)

NextCompare == Compare

Spec == Init /\ [][Next]_vars
SpecConc == InitConc /\ [][Next]_vars
SpecCompare == InitCompare /\ [][NextCompare]_vars

InitDetect ==
    /\ InitCommon
    /\ output_preset = "standard"
    /\ env = [faults |-> FALSE, live |-> {}, sqls |-> {}, configured |-> "standard"]
    /\ cmp \in { [phase |-> "metadata", input |-> c] : c \in DetectInputs }

NextDetect == Detect

SpecDetect == InitDetect /\ [][NextDetect]_vars

InitTree ==
    /\ InitCommon
    /\ output_preset = "standard"
    /\ env = [faults |-> FALSE, live |-> {}, sqls |-> {}, configured |-> "standard"]
    /\ cmp \in { [phase |-> "tree", plan |-> t] : t \in PlanTrees }

NextTree == Render \/ Cartesian

SpecTree == InitTree /\ [][NextTree]_vars

InitIntent ==
    /\ InitCommon
    /\ output_preset = "standard"
    /\ env = [faults |-> FALSE, live |-> {}, sqls |-> {}, configured |-> "standard"]
    /\ cmp \in { [phase |-> "sql", sql |-> t] : t \in IntentTexts }

NextIntent == Classify

SpecIntent == InitIntent /\ [][NextIntent]_vars

NextHistory == ReadCompare

InitSpelling ==
    /\ InitCommon
    /\ output_preset = "standard"
    /\ env = [faults |-> FALSE, live |-> {}, sqls |-> {}, configured |-> "standard"]
    /\ cmp \in { [phase |-> "spellings", pred |-> x, spelling |-> v] :
                   x \in Predicates, v \in Spellings }

NextSpelling == FingerprintSpelling

SpecSpelling == InitSpelling /\ [][NextSpelling]_vars

NextFingerprint == Fingerprint

SpecFingerprint == InitFingerprint /\ [][NextFingerprint]_vars

SpecHistory == InitHistory /\ [][NextHistory]_vars

----------------------------------------------------------------------------
(* Properties *)

Done(p) == req[p].pc = "done"

ReadOnlyStart(sql) == FirstWord(normalize_sql(sql)) \in {"SELECT", "WITH"}

PlanRequests == {"probe", "explain", "xplan_display", "mysql_explain_probe",
                 "mysql_explain"}

\* the tables run_full_oracle_analysis looks up for a request
TablesOf(r) == r.plan_objs.tables \cup extract_sql_objects(normalize_sql(r.sql))

\* C1: every text whose first token is neither SELECT nor WITH gets the dangerous
\* verdict from the Oracle validator, and the analysis ends as a refusal without
\* having asked the database for a plan or for metadata.
C1_DangerousRefused ==
    \A p \in Procs :
        ( /\ req[p].kind = "tool" /\ req[p].validated
          /\ req[p].sql # <<>> /\ ~ReadOnlyStart(req[p].sql) )
        => ( /\ req[p].verdict.is_dangerous
             /\ Done(p) /\ req[p].result = "security_block"
             /\ req[p].executed = {} )

\* C2: once run_full_oracle_analysis has generated its statement id, every way
\* out of it has attempted the delete of that id's plan rows, and a failed delete
\* leaves the primary result as it is.
C2_CleanupOnEveryExit ==
    \A p \in Procs :
        (Done(p) /\ req[p].stmt_id # NULL)
        => ( /\ "cleanup_delete" \in req[p].executed
             /\ ("cleanup_delete" \in req[p].failing
                    => req[p].result = "ok" /\ req[p].facts # NoFacts) )

InCollector(p) == req[p].pc \in {"explain", "read", "collect"}

\* C3: two analyses that are inside the collector at the same time hold different
\* statement ids, and no analysis reads or deletes plan rows another one wrote.
C3_DistinctStatementIds ==
    /\ \A p, q \in Procs :
          (p # q /\ InCollector(p) /\ InCollector(q))
          => req[p].stmt_id # req[q].stmt_id
    /\ \A p \in Procs : ~req[p].read_foreign /\ ~req[p].deleted_foreign

CategoryOf ==
    [ q \in MetaQueries \ {"dba_segments", "user_segments"} |->
        CASE q = "all_tables" -> "table_stats"
          [] q = "all_indexes" -> "index_stats"
          [] q = "all_ind_columns" -> "index_columns"
          [] q = "all_part_tables" -> "partition_tables"
          [] q = "all_part_key_columns" -> "partition_keys"
          [] q = "all_tab_col_statistics" -> "column_stats"
          [] q = "all_constraints" -> "constraints"
          [] q = "v$parameter" -> "optimizer_parameters" ]

\* C4: when the catalog query of exactly one metadata category fails, the
\* analysis returns a result in which that category is empty, and every catalog
\* query of the other categories has still been run.
C4_CategoryFailureDegrades ==
    \A p \in Procs :
        LET r == req[p]
            failed == r.failing \cap MetaQueries
        IN  ( /\ Done(p) /\ r.kind = "direct"
              /\ Cardinality(failed) = 1 /\ failed \subseteq r.executed )
            => ( /\ r.result = "ok"
                 /\ CollectMetadata(r.preset, TablesOf(r),
                        extract_columns_from_sql(normalize_sql(r.sql)), {}).executed
                      \subseteq r.executed
                 /\ \A q \in failed \cap DOMAIN CategoryOf :
                        Get(r.facts, CategoryOf[q], {}) = {} )

\* C5: when plan acquisition failed, run_full_oracle_analysis returns normally
\* with an empty plan tree, has run no metadata lookup and reports no finding.
C5_PlanFailureDegrades ==
    \A p \in Procs :
        LET r == req[p]
        IN  ( /\ Done(p) /\ r.kind = "direct" /\ r.plan_err
              /\ r.failing \cap MetaQueries = {} )
            => ( /\ r.result = "ok"
                 /\ Get(r.facts, "plan_details", <<>>) = <<>>
                 /\ r.executed \cap MetaQueries = {}
                 /\ Get(r.facts, "full_table_scans", {}) = {}
                 /\ Get(r.facts, "anomalies", {}) = {} )

\* C6: a read-only statement nested more than MaxNesting parentheses deep gets
\* the invalid verdict, not the dangerous one, and is rejected before the
\* database is asked for any plan.
C6_DeepNestingInvalid ==
    \A p \in Procs :
        LET r == req[p]
        IN  ( /\ r.validated /\ ReadOnlyStart(r.sql)
              /\ MaxParenDepth(r.sql, Len(r.sql)) > MaxNesting )
            => ( /\ ~r.verdict.is_valid /\ ~r.verdict.is_dangerous
                 /\ Done(p) /\ r.result = "invalid_sql"
                 /\ r.executed \cap PlanRequests = {} )

\* C7: an analysis whose history read failed still returns its complete primary
\* result, with history status new_query.
C7_HistoryFailureTolerated ==
    \A p \in Procs :
        LET r == req[p]
        IN  (Done(p) /\ r.kind = "tool" /\ "history_read" \in r.failing)
            => ( /\ r.result = "ok"
                 /\ Get(r.facts, "plan_details", <<>>) # <<>>
                 /\ Get(r.facts, "historical_context", NoFacts)
                        = [status |-> "new_query"] )

\* C8: with a prior record and a non-empty current plan, compare_with_history
\* returns stable for an equal plan hash and a cost less than 10% away from the
\* last one, data_growth or cost_change for an equal hash and a cost 10% or more
\* away, and plan_changed with improved set by the cost comparison for a
\* different hash.
C8_StatusClassification ==
    ( /\ cmp.phase = "done" /\ cmp.hist # <<>>
      /\ Get(cmp.facts, "plan_details", <<>>) # <<>> )
    => LET last == cmp.hist[1]
           root == cmp.facts.plan_details[1]
           cur_hash == Get(root, "plan_hash_value", "unknown")
           cur_cost == Get(root, "cost", 0)
           near == \/ cur_cost = last.cost
                   \/ Abs(cur_cost - last.cost) * 100 < 10 * last.cost
           v == cmp.out.value
       IN  /\ ~cmp.out.raised
           /\ IF last.plan_hash = cur_hash
                THEN IF cur_cost = NULL
                       THEN v.status \in {"stable", "data_growth", "cost_change"}
                     ELSE IF near THEN v.status = "stable"
                     ELSE v.status \in {"data_growth", "cost_change"}
                ELSE /\ v.status = "plan_changed"
                     /\ "improved" \in DOMAIN v
                     /\ cur_cost # NULL => v.improved = (cur_cost < last.cost)

\* what analyze_oracle_query stores for a run whose collector returned `plan`
StoredAfter(plan, rows) ==
    [ plan_hash |-> Get(plan[1], "plan_hash_value", "unknown"),
      cost |-> Get(plan[1], "cost", 0),
      table_stats |-> [t \in {"ORDERS"} |-> rows],
      plan_operations |-> TopOperations(plan) ]

\* C9: the first run of a fingerprint got the full-scan plan (cost 100), the
\* second run gets the index plan (cost 60): the comparison made for the second
\* run reports plan_changed, improved, and a cost change of about -40%.
C9_SecondRunPlanChanged ==
    ( /\ cmp.phase = "done"
      /\ cmp.hist = <<StoredAfter(PlanFull, 1000)>>
      /\ Get(cmp.facts, "plan_details", <<>>) = PlanIndex )
    => ( /\ ~cmp.out.raised
         /\ cmp.out.value.status = "plan_changed"
         /\ "improved" \in DOMAIN cmp.out.value
         /\ cmp.out.value.improved
         /\ cmp.out.value.cost_change_pct \in (0 - 410)..(0 - 390) )

\* C10: an analysis of a valid statement at standard depth, made while the
\* history holds no record of its fingerprint, returns its result with history
\* status new_query and no comparison field.
C10_FirstAnalysisNewQuery ==
    \A p \in Procs :
        LET r == req[p]
        IN  ( /\ Done(p) /\ r.kind \in {"tool", "mysql"}
              /\ r.validated /\ r.verdict.is_valid /\ ~r.verdict.is_dangerous
              /\ r.depth = "standard"
              /\ RecentRows(history, r.fingerprint, r.db_name) = <<>> )
            => ( /\ r.result = "ok"
                 /\ Get(r.facts, "historical_context", NoFacts)
                        = [status |-> "new_query"] )

\* a request to analyze_oracle_query that passed validation with a usable text
ValidToolRun(p) ==
    /\ Done(p) /\ req[p].kind = "tool"
    /\ req[p].validated /\ req[p].verdict.is_valid /\ ~req[p].verdict.is_dangerous

SuccessfulRuns(fingerprint, db_name) ==
    { q \in Procs : /\ ValidToolRun(q) /\ req[q].result = "ok"
                    /\ req[q].fingerprint = fingerprint
                    /\ req[q].db_name = db_name }

C13_NoLostAppend ==
    \A p, q \in Procs :
        ( /\ p # q /\ ValidToolRun(p) /\ ValidToolRun(q)
          /\ req[p].depth = "standard" /\ req[q].depth = "standard"
          /\ req[p].fingerprint = req[q].fingerprint
          /\ req[p].db_name = req[q].db_name )
        => ( /\ req[p].result = "ok" /\ req[q].result = "ok"
             /\ Len(RecentRows(history, req[p].fingerprint, req[p].db_name)) >= 2 )

\* the stored rows of the reader's fingerprint and database
SamePair(rows) ==
    { i \in 1..Len(rows) :
        rows[i].fingerprint = ReadFingerprint /\ rows[i].db_name = ReadDb }

\* the verdict is the one computed against a newest row among idx
AgainstNewest(idx) ==
    \E i \in idx :
        /\ \A j \in idx : cmp.store[j].executed_at <= cmp.store[i].executed_at
        /\ cmp.out = compare_with_history(<<history_entry(cmp.store[i])>>, ReadFacts)

C14_LiteralInvariantFingerprint ==
    cmp.phase = "hashed"
    => LET same_shape ==
               /\ cmp.a.ident = cmp.b.ident
               /\ LiteralKind(cmp.a.literal) = LiteralKind(cmp.b.literal)
       IN  IF same_shape THEN cmp.fa = cmp.fb ELSE cmp.fa # cmp.fb

\* what run_full_oracle_analysis returns for request r when the preset is
\* `preset` and the database answers as it did for r
CollectorMeta(r, preset) ==
    CollectMetadata(preset, TablesOf(r),
                    extract_columns_from_sql(normalize_sql(r.sql)), r.failing)

CollectorOutput(r, preset) ==
    apply_output_preset(
        full_facts(normalize_sql(r.sql), r.xplan, r.plan_details, TablesOf(r),
                   CollectorMeta(r, preset)),
        preset, r.plan_objs.tables, r.plan_objs.indexes)

TablesIn(facts) ==
    { <<t.owner, t.table_name>> : t \in Get(facts, "table_stats", {}) }

IndexesIn(facts) ==
    { <<i.owner, i.index_name>> : i \in Get(facts, "index_stats", {}) }

CollectorReturned(p) ==
    Done(p) /\ req[p].kind = "direct" /\ req[p].result = "ok"

\* C15: for one statement, plan and catalog, the tables and the indexes in the
\* minimal output are among those of the compact output, which are among those
\* of the standard output; the output returned is the one of the preset in force.
C15_PresetMonotone ==
    \A p \in Procs :
        ( /\ CollectorReturned(p)
          /\ \A ps \in Presets : ~CollectorMeta(req[p], ps).raised )
        => LET standard == CollectorOutput(req[p], "standard")
               compact == CollectorOutput(req[p], "compact")
               minimal == CollectorOutput(req[p], "minimal")
           IN  /\ req[p].facts = CASE req[p].preset = "standard" -> standard
                                   [] req[p].preset = "compact" -> compact
                                   [] OTHER -> minimal
               /\ TablesIn(minimal) \subseteq TablesIn(compact)
               /\ TablesIn(compact) \subseteq TablesIn(standard)
               /\ IndexesIn(minimal) \subseteq IndexesIn(compact)
               /\ IndexesIn(compact) \subseteq IndexesIn(standard)

\* a compact output that names a table and lacks an index the standard output has
C15_Witness ==
    \E p \in Procs :
        /\ CollectorReturned(p) /\ req[p].preset = "compact"
        /\ \A ps \in Presets : ~CollectorMeta(req[p], ps).raised
        /\ TablesIn(req[p].facts) # {}
        /\ IndexesIn(req[p].facts) # IndexesIn(CollectorOutput(req[p], "standard"))

ScenarioA(c) ==
    /\ c.plan = PlanFull
    /\ c.sql = SqlOpenOrders
    /\ \E t \in c.table_stats :
          t.owner = "APP" /\ t.table_name = "ORDERS" /\ t.num_rows = 100000
    /\ \A i \in c.index_stats : ~(i.owner = "APP" /\ i.table_name = "ORDERS")
    /\ \E x \in c.column_stats : x.column_name = "STATUS"

\* C17: for a plan with one TABLE ACCESS FULL step on ORDERS (100,000 rows, no
\* index) exactly one full-table-scan finding is emitted; it names ORDERS, lists
\* no available index and has STATUS among its WHERE-clause columns.
C17_ScenarioAFinding ==
    (cmp.phase = "detected" /\ ScenarioA(cmp.input))
    => \E f \in cmp.full_table_scans :
          /\ cmp.full_table_scans = {f}
          /\ f.table_name = "ORDERS"
          /\ f.available_indexes = {}
          /\ "STATUS" \in f.columns_in_where_clause

\* the TABLE ACCESS steps of a plan on a table
AccessesOf(plan, owner, name) ==
    { st \in StepsOf(plan) :
        st.operation = "TABLE ACCESS" /\ st.object_owner = owner /\ st.object_name = name }

DiagnosticsOn(c, owner, name) ==
    { d \in c.partition_diagnostics : d.table_owner = owner /\ d.table_name = name }

MysqlValidated == { p \in Procs : req[p].kind = "mysql" /\ req[p].validated }

HasDenylistedWord(sql) == Tokens(sql) \cap mysql_dangerous_keywords # {}

\* C19: a text whose first token is neither SELECT nor WITH, or that holds a
\* denylisted keyword as a whole word, gets the dangerous verdict from the MySQL
\* validator with no statement executed on the cursor, and analyze_mysql_query
\* returns the refusal without calling the collector.
C19_MysqlDangerousRefused ==
    \A p \in MysqlValidated :
        (~ReadOnlyStart(req[p].sql) \/ HasDenylistedWord(req[p].sql))
        => ( /\ req[p].verdict.is_dangerous
             /\ ~req[p].verdict.probed
             /\ req[p].executed = {}
             /\ Done(p) /\ req[p].result = "security_block"
             /\ req[p].facts = NoFacts )

C19_Witness ==
    \E p \in MysqlValidated :
        /\ ReadOnlyStart(req[p].sql) /\ HasDenylistedWord(req[p].sql)
        /\ req[p].result = "security_block"
        /\ req[p].executed = {}

\* C20: when the engine could not produce a plan for a statement, the result
\* returned by run_full_oracle_analysis carries the engine's message, whatever
\* the output preset.
C20_PlanUnavailableSignalled ==
    \A p \in Procs :
        LET r == req[p]
        IN  (Done(p) /\ r.kind = "direct" /\ r.plan_err /\ r.result = "ok")
            => Get(r.facts, "execution_plan", "none") = "failed"

\* the lines of a rendered text that stand for a step
StepLines(lines) == { i \in 1..Len(lines) : lines[i].step }

\* C21: for every non-empty plan tree build_visual_plan produces a text whose
\* number of step lines equals the number of steps of the tree.
C21_StepCountRecovered ==
    (cmp.phase = "rendered" /\ cmp.plan # <<>>)
    => ( /\ ~cmp.visual.raised
         /\ Cardinality(StepLines(cmp.visual.lines)) = Len(cmp.plan) )

\* C22: once every concurrent analysis has finished, the shared output preset
\* is the configured value it had before any of them started.
C22_PresetRestored ==
    (\A p \in env.live : Done(p)) => output_preset = env.configured

\* C23: for a statement that passes validation, with depth 'standard' or
\* 'plan_only', the call analyze_oracle_query makes into the collector is accepted
\* and the tool returns the collector's facts, not an internal error.
C23_CollectorCallAccepted ==
    \A p \in Procs :
        (ValidToolRun(p) /\ req[p].depth \in {"standard", "plan_only"})
        => ( /\ run_collector_accepts_depth
             /\ req[p].stmt_id # NULL
             /\ req[p].result # "internal_error"
             /\ req[p].facts # NoFacts )

\* C25: when compare_with_history computes a verdict for an analysis, the
\* regression fields are recorded on a history record of that analysis's own
\* fingerprint and db_name.
C25_VerdictRecordedOnOwnRecord ==
    (cmp.phase = "compared" /\ ~cmp.out.raised /\ cmp.out.tracking # NoFacts)
    => \E i \in 1..Len(cmp.after) :
          /\ cmp.after[i].fingerprint = ReadFingerprint
          /\ cmp.after[i].db_name = ReadDb
          /\ cmp.after[i].cost_change_pct # NULL
          /\ cmp.after[i].cost_change_pct = cmp.out.tracking.cost_change_pct
          /\ cmp.after[i].was_regression = cmp.out.tracking.was_regression
          /\ cmp.after[i].plan_changed = cmp.out.tracking.plan_changed

\* C24: for every plan tree the collector can produce, steps with null options,
\* cost or cardinality included, the Cartesian detector and the visualizer
\* return normally.
C24_NullFieldsTolerated ==
    /\ cmp.phase = "rendered" => ~cmp.visual.raised
    /\ cmp.phase = "searched" => ~cmp.cartesian.raised

\* the checks of classify_query_intent whose condition holds for a text and
\* that assign a type when it does, by their place in IntentTypes
AssigningChecks(sql) ==
    LET rownum == HasPhrase(sql, <<"ROWNUM">>)
    IN  (IF HasPhrase(sql, <<"GROUP", "BY">>) THEN {1} ELSE {})
        \cup (IF rownum THEN {2} ELSE {})
        \cup (IF rownum /\ HasPhrase(sql, <<"ORDER", "BY">>) THEN {3} ELSE {})
        \cup (IF Cardinality(Occurrences(sql, <<"LEFT", "JOIN">>)) >= 2
                   /\ HasPhrase(sql, <<"IS", "NULL">>) THEN {4} ELSE {})
        \cup (IF HasPhrase(sql, <<"UNION">>) THEN {5} ELSE {})
        \cup (IF Cardinality(Occurrences(sql, <<"JOIN">>)) >= 4 THEN {6} ELSE {})
        \cup (IF HasPhrase(sql, <<"COUNT", "(">>) /\ ~HasPhrase(sql, <<"GROUP", "BY">>)
                THEN {7} ELSE {})
        \cup (IF sql[1] = "SELECT" /\ sql[2] = "*" THEN {8} ELSE {})

\* C27: the type label of classify_query_intent is the one of the first check,
\* in the fixed order of the checks, that assigns a type; later matching checks
\* never change it.
C27_FirstAssigningCheckWins ==
    cmp.phase = "classified"
    => LET checks == AssigningChecks(cmp.sql)
       IN  cmp.intent.type =
              IF checks = {} THEN "unknown"
              ELSE IntentTypes[CHOOSE i \in checks : \A j \in checks : i <= j]

Findings == {"full_table_scans", "cartesian_detections", "anomalies", "query_intent"}

\* C26: the findings of the rule engine are in the output of
\* run_full_oracle_analysis under every preset.
C26_FindingsUnderEveryPreset ==
    \A p \in Procs :
        (Done(p) /\ req[p].kind = "direct" /\ req[p].result = "ok")
        => Findings \subseteq DOMAIN req[p].facts

\* the steps the rule of detect_cartesian_products names: explicit Cartesian
\* joins, and nested loops over the floor whose next step has no predicate
RuleSteps(plan) ==
    { plan[i].id : i \in { k \in 1..Len(plan) :
        \/ /\ plan[k].operation = "MERGE JOIN"
           /\ plan[k].options = "CARTESIAN"
        \/ /\ plan[k].operation = "NESTED LOOPS"
           /\ plan[k].cardinality # NULL
           /\ plan[k].cardinality > CartesianFloor
           /\ \/ k = Len(plan)
              \/ /\ plan[k + 1].access_predicates = None
                 /\ plan[k + 1].filter_predicates = None } }

\* C28: detect_cartesian_products returns detections for exactly the explicit
\* Cartesian join steps, whatever their cardinality, and the nested-loop steps
\* over the threshold whose next step has neither an access nor a filter predicate.
C28_CartesianRule ==
    cmp.phase = "searched"
    => /\ ~cmp.cartesian.raised
       /\ { d.step_id : d \in cmp.cartesian.detections } = RuleSteps(cmp.plan)

\* C29: a statement and a spelling of it that differs in a trailing terminator
\* (with or without whitespace around it), in letter case or in the amount of
\* whitespace between tokens have the same fingerprint.
C29_SpellingInvariantFingerprint ==
    cmp.phase = "fingerprinted" => cmp.other = cmp.plain

\* step i of the plan is the last of its siblings when no later step of its depth
\* in the tree comes before a step of a smaller depth
LastSibling(plan, i) ==
    LET d == TreeDepth(plan, i)
        later == { j \in (i + 1)..Len(plan) : TreeDepth(plan, j) <= d }
    IN  \/ later = {}
        \/ TreeDepth(plan, CHOOSE j \in later : \A k \in later : j <= k) # d

\* C30: in the text build_visual_plan renders, each step after the root is
\* indented by its depth in the plan tree, with the corner when it is the last
\* of its siblings and the tee otherwise.
C30_IndentedByTreeDepth ==
    (cmp.phase = "rendered" /\ ~cmp.visual.raised)
    => \A i \in 2..Len(cmp.plan) :
           LET line == cmp.visual.lines[i + 1]
           IN  /\ line.indent = TreeDepth(cmp.plan, i) - 1
               /\ line.branch = IF LastSibling(cmp.plan, i) THEN "corner" ELSE "tee"

====
